---- MODULE Spec2Model ----
(***************************************************************************)
(* Workspace Session Gateway of the Replit clone: the PTY session manager  *)
(* (TerminalManager), the socket.io gateway that drives it, and the file   *)
(* handlers with their write-through to the object store.                  *)
(*                                                                         *)
(* The specifications share the module's state:                            *)
(*   SpecPty   the TerminalManager class called directly (createPty,       *)
(*             write, clear) with the pty's data and exit events;          *)
(*   SpecWs    socket connections whose events reach the manager through  *)
(*             the handlers of initWs / initHandlers;                      *)
(*   SpecFile  the updateContent / fetchContent handlers of one open      *)
(*             connection with their asynchronous fs and S3 operations.    *)
(*   SpecProv  POST /project and copyS3Folder against a paged object      *)
(*             store (SpecProvFair: the same with answers that arrive);    *)
(*   SpecTree  the directory listings of one connection and the client's   *)
(*             accumulated entry list.                                     *)
(***************************************************************************)
EXTENDS Integers, Sequences, FiniteSets, TLC

(***************************************************************************)
(* Bounds of the model.                                                    *)
(***************************************************************************)
MaxCalls == 4      \* manager calls (createPty, write, clear) in one behaviour
MaxOut == 1        \* output chunks the shells produce in one behaviour
MaxReqs == 3       \* file requests submitted in one behaviour
MaxObjects == 12   \* objects of the template
MaxPosts == 2      \* POST /project requests in one behaviour
MaxFaults == 1     \* store calls of provisioning that fail in one behaviour
MaxFetches == 3    \* fetchDir requests of the client in one behaviour
MaxEdits == 1      \* entries the user's shell replaces in one behaviour
MaxChunks == 3     \* output chunks of the shells of SpecTerm in one behaviour
MaxUpdates == 2                    \* updateContent events of a materialised workspace
MaxUnheard == 1                    \* events a client submits on a socket without listeners

SocketIds == {"s1", "s2"}          \* socket.id values: the session keys
NoHost == <<"undefined">>          \* handshake without a Host header
Hosts == {<<"r1", "repl", "dev">>, <<"", "repl", "dev">>, NoHost}
Undefined == "undefined"
ReplIds == {"r1"}
FilePaths == {"/a/x.txt"}          \* paths as the root listing hands them out
Contents == {"hello", "bye"}       \* contents a client sends
Original == "v0"                   \* the provisioned content of every file
NoReply == "(none)"

VARIABLES
    sessions,   \* TerminalManager.sessions: key -> [terminal, replId]
    procs,      \* the forked shells, by pid: [state, cb, replId, input, out]
    emitted,    \* per key: the chunks its onData callback was handed
    sent,       \* per key: how many inputs were submitted for it
    thrown,     \* exceptions that escaped a manager call: [op, key]
    phase,      \* history, per key: "never" | "created" | "destroyed"
    lastCall,   \* history: the latest manager call [op, key, hit]
    calls,      \* history: how many manager calls were made
    sock,       \* per socket: [state, replId, loaded]
    mode,       \* what the runtime does on an unhandled rejection
    crashed,    \* the hosting process was terminated
    files,      \* the local mirror: full path -> content
    durable,    \* the object store: key -> content
    reqs,       \* the file requests, in the order their handlers started
    localHist,  \* history: full path -> the contents ever stored there
    env,        \* process.env.S3_BUCKET
    bucket,     \* the objects of the bucket: key -> content
    s3,         \* how the store pages its listings: [pageSize, truncates]
    posts,      \* the POST /project requests: [body, calls, responses, outcome, after]
    prov,       \* the running copyS3Folder call of the latest request
    strays,     \* copies of a failed call that are still in flight
    faults,     \* how many store calls of provisioning may still fail
    disk,       \* the directories of /workspace: relative path -> dirents
    fileStructure,  \* the client's accumulated entries (RemoteFile[])
    loaded,     \* the client received 'loaded'
    fetches,    \* the client's fetchDir requests: [dir, state, data, empty]
    acks,       \* the answered requests whose acknowledgement is on its way
    latest,     \* history: path -> the entry received last for it
    edits,      \* how many entries the user's shell may still replace
    mirror,     \* the files fetchS3Folder wrote: resolved path -> [body, key]
    mat,        \* the fetchS3Folder call: [state, key, localPath, todo, lists]
    known,      \* the entries the gateway listed for the client
    updates     \* history: the updateContent events: [path, file, key]

ptyVars == <<sessions, procs, emitted, sent, thrown, phase, lastCall, calls>>
wsVars == <<sock, mode, crashed>>
fileVars == <<files, durable, reqs, localHist>>
provVars == <<env, bucket, s3, posts, prov, strays, faults>>
treeVars == <<disk, fileStructure, loaded, fetches, acks, latest, edits>>
matVars == <<mirror, mat, known, updates>>
vars == <<sessions, procs, emitted, sent, thrown, phase, lastCall, calls,
          sock, mode, crashed, files, durable, reqs, localHist,
          env, bucket, s3, posts, prov, strays, faults,
          disk, fileStructure, loaded, fetches, acks, latest, edits,
          mirror, mat, known, updates>>

(***************************************************************************)
(* The session map is a JavaScript object: a finite map from string keys.  *)
(***************************************************************************)
Put(map, key, val) ==
    [k \in DOMAIN map \cup {key} |-> IF k = key THEN val ELSE map[k]]

Remove(map, key) ==
    [k \in DOMAIN map \ {key} |-> map[k]]

\* The property key JavaScript derives from a number: its decimal string.
PidKey(pid) == ToString(pid)

Pids == 1..Len(procs)

Running(pid) == procs[pid].state = "running"

RECURSIVE SumLen(_, _)
SumLen(f, keys) ==
    IF keys = {} THEN 0
    ELSE LET k == CHOOSE x \in keys : TRUE
         IN  Len(f[k]) + SumLen(f, keys \ {k})

\* How many output chunks were handed to callbacks so far.
Outputs == SumLen(emitted, SocketIds)

(***************************************************************************)
(* Paths and keys of a file of the workspace.                              *)
(***************************************************************************)

\* `/workspace/${filePath}`: the file of the local mirror a handler touches.
LocalPath(filePath) == "/workspace/" \o filePath

\* saveToS3(`code/${replId}`, filePath, content): Key = `${key}${filePath}`
DurableKey(replId, filePath) == ("code/" \o replId) \o filePath

(***************************************************************************)
(* TerminalManager                                                         *)
(***************************************************************************)

\* fork(SHELL, [], {...}): the spawned shell, its data listener bound to the
\* caller's onData (identified by the key that created it).
fork(id, replId) ==
    [state |-> "running", cb |-> id, replId |-> replId, input |-> <<>>, out |-> 0]

\* createPty(id, replId, onData): fork, then sessions[id] = {terminal, replId}.
\* fork may throw (forkpty failed): nothing was stored then.
createPty(id, replId) ==
    \/ /\ procs' = Append(procs, fork(id, replId))
       /\ sessions' = Put(sessions, id,
                          [terminal |-> Len(procs) + 1, replId |-> replId])
       /\ UNCHANGED thrown
    \/ /\ thrown' = thrown \cup {[op |-> "createPty", key |-> id]}
       /\ UNCHANGED <<procs, sessions>>

\* Mutant of ptyWrite: the data is put in front of what was written before.
ptyWrite_Prepend(ps, pid, data) ==
    IF ps[pid].state = "running"
    THEN [ps EXCEPT ![pid].input = <<data>> \o @]
    ELSE ps

\* IPty.write on a terminal: the shell reads the data while it runs; on a
\* terminal whose process is gone the data is lost.
ptyWrite(ps, pid, data) ==
    IF ps[pid].state = "running"
    THEN [ps EXCEPT ![pid].input = Append(@, data)]
    ELSE ps

\* Mutant of write: the lookup without the optional chaining, which throws a
\* TypeError when the key has no session.
write_NoOptionalChain(id, data) ==
    /\ procs' = IF id \in DOMAIN sessions
                THEN ptyWrite(procs, sessions[id].terminal, data)
                ELSE procs
    /\ thrown' = IF id \in DOMAIN sessions
                 THEN thrown
                 ELSE thrown \cup {[op |-> "write", key |-> id]}
    /\ UNCHANGED sessions

\* Mutant of write: the data is written to the terminal of every session.
write_Broadcast(id, data) ==
    /\ procs' = [pid \in DOMAIN procs |->
                    IF \E k \in DOMAIN sessions : sessions[k].terminal = pid
                    THEN ptyWrite(procs, pid, data)[pid]
                    ELSE procs[pid]]
    /\ UNCHANGED <<sessions, thrown>>

\* write(terminalId, data): this.sessions[terminalId]?.terminal.write(data)
write(id, data) ==
    /\ procs' = IF id \in DOMAIN sessions
                THEN ptyWrite(procs, sessions[id].terminal, data)
                ELSE procs
    /\ UNCHANGED <<sessions, thrown>>

\* IPty.kill: SIGHUP to the process; a process already gone is left as it is.
kill(ps, pid) ==
    IF ps[pid].state = "running" THEN [ps EXCEPT ![pid].state = "killed"] ELSE ps

\* Mutant of clear: the session looked up and deleted under the terminal's
\* pid (the key the exit listener uses) instead of under terminalId.
clear_ByPid(id) ==
    LET key == IF id \in DOMAIN sessions
               THEN PidKey(sessions[id].terminal)
               ELSE id
    IN  /\ procs' = IF key \in DOMAIN sessions
                    THEN kill(procs, sessions[key].terminal)
                    ELSE procs
        /\ sessions' = Remove(sessions, key)
        /\ UNCHANGED thrown

\* Mutant of clear: the whole session table reset instead of one key deleted.
clear_ResetAll(id) ==
    /\ procs' = IF id \in DOMAIN sessions
                THEN kill(procs, sessions[id].terminal)
                ELSE procs
    /\ sessions' = <<>>
    /\ UNCHANGED thrown

\* clear(terminalId): sessions[terminalId]?.terminal.kill(); delete sessions[terminalId]
clear(id) ==
    /\ procs' = IF id \in DOMAIN sessions
                THEN kill(procs, sessions[id].terminal)
                ELSE procs
    /\ sessions' = Remove(sessions, id)
    /\ UNCHANGED thrown

\* term.on('exit', () => { delete this.sessions[term.pid] })
onExit(pid) ==
    sessions' = Remove(sessions, PidKey(pid))

\* Mutant of onData: the chunk is emitted ahead of the earlier ones.
onData_Prepend(pid) ==
    emitted' = [emitted EXCEPT ![procs[pid].cb] = <<<<pid, procs[pid].out + 1>>>> \o @]

\* term.on('data', (data) => onData(data, term.pid)): the callback given to
\* createPty receives the chunk; chunks are numbered per process.
onData(pid) ==
    emitted' = [emitted EXCEPT ![procs[pid].cb] = Append(@, <<pid, procs[pid].out + 1>>)]

(***************************************************************************)
(* History of the manager calls (not program state).                       *)
(***************************************************************************)
Called(op, id) ==
    /\ calls < MaxCalls
    /\ calls' = calls + 1
    /\ lastCall' = [op |-> op, key |-> id, hit |-> id \in DOMAIN sessions]

(***************************************************************************)
(* Events of the pty processes, common to SpecPty and SpecWs.              *)
(***************************************************************************)
PtyData(pid) ==
    /\ ~crashed
    /\ procs[pid].state # "exited"
    /\ Outputs < MaxOut
    /\ onData(pid)
    /\ procs' = [procs EXCEPT ![pid].out = @ + 1]
    /\ UNCHANGED <<sessions, sent, thrown, phase, lastCall, calls, wsVars, fileVars, provVars, treeVars, matVars>>

PtyExit(pid) ==
    /\ ~crashed
    /\ procs[pid].state # "exited"
    /\ procs' = [procs EXCEPT ![pid].state = "exited"]
    /\ onExit(pid)
    /\ UNCHANGED <<emitted, sent, thrown, phase, lastCall, calls, wsVars, fileVars, provVars, treeVars, matVars>>

(***************************************************************************)
(* SpecPty: the manager called directly.                                   *)
(***************************************************************************)
ApiCreate(id, replId) ==
    /\ createPty(id, replId)
    /\ Called("createPty", id)
    /\ phase' = [phase EXCEPT ![id] = IF Len(procs') > Len(procs) THEN "created" ELSE @]
    /\ UNCHANGED <<emitted, sent, wsVars, fileVars, provVars, treeVars, matVars>>

ApiWrite(id) ==
    /\ write(id, <<id, sent[id] + 1>>)
    /\ sent' = [sent EXCEPT ![id] = @ + 1]
    /\ Called("write", id)
    /\ UNCHANGED <<emitted, phase, wsVars, fileVars, provVars, treeVars, matVars>>

ApiClear(id) ==
    /\ clear(id)
    /\ Called("clear", id)
    /\ phase' = [phase EXCEPT ![id] = IF @ = "never" THEN @ ELSE "destroyed"]
    /\ UNCHANGED <<emitted, sent, wsVars, fileVars, provVars, treeVars, matVars>>

InitPtyVars ==
    /\ sessions = <<>>
    /\ procs = <<>>
    /\ emitted = [k \in SocketIds |-> <<>>]
    /\ sent = [k \in SocketIds |-> 0]
    /\ thrown = {}
    /\ phase = [k \in SocketIds |-> "never"]
    /\ lastCall = [op |-> "none", key |-> "none", hit |-> FALSE]
    /\ calls = 0

\* No listing page, and no copyS3Folder call.
NoPage == [Contents |-> <<>>, IsTruncated |-> FALSE, NextContinuationToken |-> 0]

NoCall ==
    [state |-> "idle", sourcePrefix |-> <<>>, destinationPrefix |-> <<>>,
     token |-> 0, depth |-> 0, page |-> NoPage, chunk |-> 0, inflight |-> {},
     lists |-> 0, copies |-> 0, error |-> "none", storeFailed |-> FALSE]

\* No POST /project was received.
InitProvVars ==
    /\ env = "repl-bucket"
    /\ bucket = <<>>
    /\ s3 = [pageSize |-> 1, truncates |-> "honest"]
    /\ posts = <<>>
    /\ prov = NoCall
    /\ strays = {}
    /\ faults = 0

\* The workspace directory before any client was sent its listing.
InitTreeVars ==
    /\ disk = [d \in {""} |-> <<>>]
    /\ fileStructure = <<>>
    /\ loaded = FALSE
    /\ fetches = <<>>
    /\ acks = <<>>
    /\ latest = <<>>
    /\ edits = 0

\* No fetchS3Folder call.
NoFetch == [state |-> "idle", key |-> <<>>, localPath |-> <<>>, todo |-> <<>>,
            lists |-> 0]

\* Nothing was materialised from the store.
InitMatVars ==
    /\ mirror = <<>>
    /\ mat = NoFetch
    /\ known = {}
    /\ updates = <<>>

\* The mirror as materialised from the store: both hold the provisioned files.
InitFileVars ==
    /\ files = [f \in {LocalPath(p) : p \in FilePaths} |-> Original]
    /\ durable = [k \in {DurableKey(r, p) : r \in ReplIds, p \in FilePaths} |-> Original]
    /\ reqs = <<>>
    /\ localHist = [f \in {LocalPath(p) : p \in FilePaths} |-> {Original}]

InitWsVars ==
    /\ sock = [s \in SocketIds |-> [state |-> "idle", replId |-> Undefined, loaded |-> 0]]
    /\ mode \in {"warn", "throw"}
    /\ crashed = FALSE

InitPty ==
    /\ InitPtyVars
    /\ sock = [s \in SocketIds |-> [state |-> "idle", replId |-> Undefined, loaded |-> 0]]
    /\ mode = "warn"
    /\ crashed = FALSE
    /\ InitFileVars
    /\ InitProvVars
    /\ InitTreeVars
    /\ InitMatVars

NextPty ==
    \/ \E id \in SocketIds, r \in ReplIds : ApiCreate(id, r)
    \/ \E id \in SocketIds : ApiWrite(id)
    \/ \E id \in SocketIds : ApiClear(id)
    \/ \E pid \in Pids : PtyData(pid)
    \/ \E pid \in Pids : PtyExit(pid)

SpecPty == InitPty /\ [][NextPty]_vars

(***************************************************************************)
(* SpecWs: the socket.io gateway (initWs, initHandlers).                   *)
(***************************************************************************)

\* host?.split('.')[0]: the first label of the Host header, if there is one.
replIdOf(host) == IF host = NoHost THEN Undefined ELSE Head(host)

\* JavaScript's !replId: undefined and the empty string are falsy.
Falsy(v) == v = Undefined \/ v = ""

\* A promise rejected with nothing awaiting or catching it: the runtime
\* either only warns or terminates the process, as it is configured.
UnhandledRejection == crashed' = (mode = "throw")

\* io.on("connection") with a falsy replId: disconnect, clear(socket.id), return.
ConnectRejected(s, host) ==
    /\ ~crashed
    /\ sock[s].state = "idle"
    /\ Falsy(replIdOf(host))
    /\ sock' = [sock EXCEPT ![s].state = "closed"]
    /\ clear(s)
    /\ Called("clear", s)
    /\ phase' = [phase EXCEPT ![s] = IF @ = "never" THEN @ ELSE "destroyed"]
    /\ UNCHANGED <<emitted, sent, mode, crashed, fileVars, provVars, treeVars, matVars>>

\* io.on("connection") with a replId: emit "loaded" with the root listing,
\* then initHandlers(socket, replId).
ConnectAccepted(s, host) ==
    /\ ~crashed
    /\ sock[s].state = "idle"
    /\ ~Falsy(replIdOf(host))
    /\ sock' = [sock EXCEPT ![s] = [state |-> "open", replId |-> replIdOf(host),
                                   loaded |-> @.loaded + 1]]
    /\ UNCHANGED <<ptyVars, mode, crashed, fileVars, provVars, treeVars, matVars>>

\* io.on("connection") whose await fetchDir("/workspace", "") rejects: nothing
\* is emitted and initHandlers is never reached.
ConnectListingFails(s, host) ==
    /\ ~crashed
    /\ sock[s].state = "idle"
    /\ ~Falsy(replIdOf(host))
    /\ sock' = [sock EXCEPT ![s].state = "nohandlers", ![s].replId = replIdOf(host)]
    /\ UnhandledRejection
    /\ UNCHANGED <<ptyVars, mode, fileVars, provVars, treeVars, matVars>>

\* socket.on("requestTerminal"): terminalManager.createPty(socket.id, replId, cb)
RequestTerminal(s) ==
    /\ ~crashed
    /\ sock[s].state = "open"
    /\ createPty(s, sock[s].replId)
    /\ Called("createPty", s)
    /\ phase' = [phase EXCEPT ![s] = IF Len(procs') > Len(procs) THEN "created" ELSE @]
    /\ IF thrown' # thrown THEN UnhandledRejection ELSE UNCHANGED crashed
    /\ UNCHANGED <<emitted, sent, sock, mode, fileVars, provVars, treeVars, matVars>>

\* socket.on("terminalData"): terminalManager.write(socket.id, data)
TerminalData(s) ==
    /\ ~crashed
    /\ sock[s].state = "open"
    /\ write(s, <<s, sent[s] + 1>>)
    /\ sent' = [sent EXCEPT ![s] = @ + 1]
    /\ Called("write", s)
    /\ UNCHANGED <<emitted, phase, wsVars, fileVars, provVars, treeVars, matVars>>

\* socket.on("disconnect"): console.log("user disconnected")
Disconnect(s) ==
    /\ ~crashed
    /\ sock[s].state \in {"open", "nohandlers"}
    /\ sock' = [sock EXCEPT ![s].state = "closed"]
    /\ UNCHANGED <<ptyVars, mode, crashed, fileVars, provVars, treeVars, matVars>>

InitWs ==
    /\ InitPtyVars
    /\ InitWsVars
    /\ InitFileVars
    /\ InitProvVars
    /\ InitTreeVars
    /\ InitMatVars

NextWs ==
    \/ \E s \in SocketIds, h \in Hosts : ConnectRejected(s, h)
    \/ \E s \in SocketIds, h \in Hosts : ConnectAccepted(s, h)
    \/ \E s \in SocketIds, h \in Hosts : ConnectListingFails(s, h)
    \/ \E s \in SocketIds : RequestTerminal(s)
    \/ \E s \in SocketIds : TerminalData(s)
    \/ \E s \in SocketIds : Disconnect(s)
    \/ \E pid \in Pids : PtyData(pid)
    \/ \E pid \in Pids : PtyExit(pid)

SpecWs == InitWs /\ [][NextWs]_vars

(***************************************************************************)
(* SpecConn: the connection handler step by step.  Between the connection   *)
(* and initHandlers the handler awaits the root listing; an event that      *)
(* reaches a socket without listeners is dropped.                           *)
(***************************************************************************)

\* io.on("connection") with a replId, up to `await fetchDir("/workspace", "")`.
Connect(s, host) ==
    /\ ~crashed
    /\ sock[s].state = "idle"
    /\ ~Falsy(replIdOf(host))
    /\ sock' = [sock EXCEPT ![s].state = "listing", ![s].replId = replIdOf(host)]
    /\ UNCHANGED <<ptyVars, mode, crashed, fileVars, provVars, treeVars, matVars>>

\* Mutant of RootListingFails: initHandlers is called before the listing is
\* awaited, so the listeners are there although nothing was pushed.
RootListingFails_HandlersFirst(s) ==
    /\ ~crashed
    /\ sock[s].state = "listing"
    /\ sock' = [sock EXCEPT ![s].state = "open"]
    /\ UnhandledRejection
    /\ UNCHANGED <<ptyVars, mode, fileVars, provVars, treeVars, matVars>>

\* The awaited fetchDir rejects: the handler ends there, nothing is emitted
\* and initHandlers is not reached.
RootListingFails(s) ==
    /\ ~crashed
    /\ sock[s].state = "listing"
    /\ sock' = [sock EXCEPT ![s].state = "nohandlers"]
    /\ UnhandledRejection
    /\ UNCHANGED <<ptyVars, mode, fileVars, provVars, treeVars, matVars>>

\* The awaited fetchDir resolves: socket.emit("loaded", ...), then
\* initHandlers(socket, replId).
RootListed(s) ==
    /\ ~crashed
    /\ sock[s].state = "listing"
    /\ sock' = [sock EXCEPT ![s].state = "open", ![s].loaded = @ + 1]
    /\ UNCHANGED <<ptyVars, mode, crashed, fileVars, provVars, treeVars, matVars>>

\* The client submits a terminal event on a socket that has no listener
\* for it: the event is dropped.
Unheard(s) ==
    /\ ~crashed
    /\ sock[s].state \in {"listing", "nohandlers"}
    /\ sent[s] < MaxUnheard
    /\ sent' = [sent EXCEPT ![s] = @ + 1]
    /\ UNCHANGED <<sessions, procs, emitted, thrown, phase, lastCall, calls,
                   wsVars, fileVars, provVars, treeVars, matVars>>

NextConn ==
    \/ \E s \in SocketIds, h \in Hosts : Connect(s, h)
    \/ \E s \in SocketIds : RootListingFails(s)
    \/ \E s \in SocketIds : RootListed(s)
    \/ \E s \in SocketIds : Unheard(s)
    \/ \E s \in SocketIds : RequestTerminal(s)
    \/ \E s \in SocketIds : TerminalData(s)
    \/ \E pid \in Pids : PtyData(pid)

SpecConn == InitWs /\ [][NextConn]_vars

(***************************************************************************)
(* SpecFile: the updateContent / fetchContent handlers of an open          *)
(* connection.  A handler runs to its first await when its event is        *)
(* dispatched; the fs and S3 operations it awaits complete later, in any   *)
(* order.                                                                  *)
(***************************************************************************)

\* Mutant of updateContent: saveFile called without await, so that saveToS3
\* is issued while fs.writeFile is still queued.
updateContent_NoAwait(s, filePath, content) ==
    [kind |-> "update", sock |-> s, path |-> filePath, content |-> content,
     fs |-> "queued", put |-> "pending", puts |-> 1,
     reply |-> NoReply, outcome |-> "running"]

\* socket.on("updateContent"): the handler up to `await saveFile(...)`:
\* fs.writeFile is queued, saveToS3 was not called yet.
updateContent(s, filePath, content) ==
    [kind |-> "update", sock |-> s, path |-> filePath, content |-> content,
     fs |-> "queued", put |-> "none", puts |-> 0,
     reply |-> NoReply, outcome |-> "running"]

\* socket.on("fetchContent"): the handler up to `await fetchFileContent(...)`.
fetchContent(s, filePath) ==
    [kind |-> "fetch", sock |-> s, path |-> filePath, content |-> NoReply,
     fs |-> "queued", put |-> "none", puts |-> 0,
     reply |-> NoReply, outcome |-> "running"]

\* saveFile resolved: the handler goes on to `await saveToS3(...)`, which
\* issues s3.putObject.
saveToS3(req) == [req EXCEPT !.fs = "ok", !.put = "pending", !.puts = @ + 1]

\* A rejection of an awaited promise leaves the async handler: the handler has
\* no try/catch, so its own promise is rejected and nothing handles it.
reject(req) == [req EXCEPT !.outcome = "rejected"]

Dispatch(s) ==
    /\ ~crashed
    /\ sock[s].state = "open"
    /\ Len(reqs) < MaxReqs

UpdateContent(s, filePath, content) ==
    /\ Dispatch(s)
    /\ reqs' = Append(reqs, updateContent(s, filePath, content))
    /\ UNCHANGED <<files, durable, localHist, ptyVars, wsVars, provVars, treeVars, matVars>>

FetchContent(s, filePath) ==
    /\ Dispatch(s)
    /\ reqs' = Append(reqs, fetchContent(s, filePath))
    /\ UNCHANGED <<files, durable, localHist, ptyVars, wsVars, provVars, treeVars, matVars>>

\* fs.writeFile opens the file for writing, which creates or truncates it.
FsWriteOpen(i) ==
    /\ ~crashed
    /\ reqs[i].kind = "update" /\ reqs[i].fs = "queued"
    /\ reqs' = [reqs EXCEPT ![i].fs = "open"]
    /\ files' = Put(files, LocalPath(reqs[i].path), "")
    /\ UNCHANGED <<durable, localHist, ptyVars, wsVars, provVars, treeVars, matVars>>

\* fs.writeFile fails (the open is refused): saveFile rejects, the handler
\* stops at its first await.
FsWriteFail(i) ==
    /\ ~crashed
    /\ reqs[i].kind = "update" /\ reqs[i].fs = "queued"
    /\ reqs' = [reqs EXCEPT ![i] = reject([@ EXCEPT !.fs = "failed"])]
    /\ UnhandledRejection
    /\ UNCHANGED <<files, durable, localHist, ptyVars, sock, mode, provVars, treeVars, matVars>>

\* fs.writeFile stored the content and called back: saveFile resolves and the
\* handler continues with saveToS3.
FsWriteDone(i) ==
    /\ ~crashed
    /\ reqs[i].kind = "update" /\ reqs[i].fs = "open"
    /\ files' = Put(files, LocalPath(reqs[i].path), reqs[i].content)
    /\ localHist' = [localHist EXCEPT ![LocalPath(reqs[i].path)] = @ \cup {reqs[i].content}]
    /\ reqs' = [reqs EXCEPT ![i] = saveToS3(@)]
    /\ UNCHANGED <<durable, ptyVars, wsVars, provVars, treeVars, matVars>>

\* s3.putObject succeeded: the object holds the request's content.
PutDone(i) ==
    /\ ~crashed
    /\ reqs[i].put = "pending"
    /\ durable' = Put(durable, DurableKey(sock[reqs[i].sock].replId, reqs[i].path),
                      reqs[i].content)
    /\ reqs' = [reqs EXCEPT ![i].put = "ok", ![i].outcome = "resolved"]
    /\ UNCHANGED <<files, localHist, ptyVars, wsVars, provVars, treeVars, matVars>>

\* s3.putObject failed: saveToS3 rejects.
PutFail(i) ==
    /\ ~crashed
    /\ reqs[i].put = "pending"
    /\ reqs' = [reqs EXCEPT ![i] = reject([@ EXCEPT !.put = "failed"])]
    /\ UnhandledRejection
    /\ UNCHANGED <<files, durable, localHist, ptyVars, sock, mode, provVars, treeVars, matVars>>

\* fs.readFile called back: fetchFileContent resolves with the file's content
\* of that moment and the handler calls callback(data); for a missing file it
\* rejects and the callback is never called.
FsReadDone(i) ==
    /\ ~crashed
    /\ reqs[i].kind = "fetch" /\ reqs[i].fs = "queued"
    /\ IF LocalPath(reqs[i].path) \in DOMAIN files
       THEN /\ reqs' = [reqs EXCEPT ![i].fs = "ok",
                                    ![i].reply = files[LocalPath(reqs[i].path)],
                                    ![i].outcome = "resolved"]
            /\ UNCHANGED crashed
       ELSE /\ reqs' = [reqs EXCEPT ![i] = reject([@ EXCEPT !.fs = "failed"])]
            /\ UnhandledRejection
    /\ UNCHANGED <<files, durable, localHist, ptyVars, sock, mode, provVars, treeVars, matVars>>

\* One connection whose handlers are registered.
InitFile ==
    /\ InitPtyVars
    /\ InitFileVars
    /\ sock = [s \in SocketIds |->
                 IF s = "s1"
                 THEN [state |-> "open", replId |-> "r1", loaded |-> 1]
                 ELSE [state |-> "idle", replId |-> Undefined, loaded |-> 0]]
    /\ mode \in {"warn", "throw"}
    /\ crashed = FALSE
    /\ InitProvVars
    /\ InitTreeVars
    /\ InitMatVars

NextFile ==
    \/ \E s \in SocketIds, f \in FilePaths, c \in Contents : UpdateContent(s, f, c)
    \/ \E s \in SocketIds, f \in FilePaths : FetchContent(s, f)
    \/ \E i \in DOMAIN reqs : FsWriteOpen(i)
    \/ \E i \in DOMAIN reqs : FsWriteFail(i)
    \/ \E i \in DOMAIN reqs : FsWriteDone(i)
    \/ \E i \in DOMAIN reqs : PutDone(i)
    \/ \E i \in DOMAIN reqs : PutFail(i)
    \/ \E i \in DOMAIN reqs : FsReadDone(i)

SpecFile == InitFile /\ [][NextFile]_vars

(***************************************************************************)
(* SpecProv: POST /project and copyS3Folder (the provisioner).             *)
(*                                                                         *)
(* Keys are sequences of symbols, so that `replace` and the store's prefix  *)
(* match work on them as they do on the characters of a string.            *)
(***************************************************************************)

\* copyS3Folder's default parameter maxDepth and its chunk width.
maxDepth == 10
maxConcurrency == 10

Languages == {"node"}
Workspaces == {"w1"}
Bodies == {[replId |-> "w1", language |-> "node"],
           [replId |-> "", language |-> "node"],
           [replId |-> "w1", language |-> Undefined]}
PageSizes == {1, 3}                \* MaxKeys the store applies to a listing
Truncations == {"honest", "always"}
\* How many objects the template has: none, one, some pages, and around
\* the most that the ceiling on the pages lets through.
Sizes == {0, 1, MaxObjects - 5, MaxObjects - 1, MaxObjects}
BucketNames == {"repl-bucket", Undefined}

\* A template literal drops an empty string.
Str(x) == IF x = "" THEN <<>> ELSE <<x>>

\* `base/${language}` and `code/${replId}`
sourcePrefix(language) == <<"base/">> \o Str(language)
destinationPrefix(replId) == <<"code/">> \o Str(replId)

FileName(i) == IF i < 10 THEN "f0" \o ToString(i) ELSE "f" \o ToString(i)

TemplateKey(language, i) == sourcePrefix(language) \o <<"/", FileName(i)>>

\* The keys that can exist, in the order the store lists them.
KeyOrder ==
    <<<<"base/", "node", "-js", "/", FileName(1)>>>> \o
    [i \in 1..MaxObjects |-> <<"base/", "node", "/", FileName(i)>>] \o
    <<<<"code/", "w1", "/", "a", "/", "x">>>> \o
    [i \in 1..MaxObjects |-> <<"code/", "w1", "/", FileName(i)>>]

\* A template of n objects, each with a content of its own.
Template(language, n) ==
    [k \in {TemplateKey(language, i) : i \in 1..n} |-> <<"content of", k[4]>>]

IsPrefix(p, s) == Len(p) <= Len(s) /\ SubSeq(s, 1, Len(p)) = p

Occurs(s, pat, i) ==
    i + Len(pat) - 1 <= Len(s) /\ SubSeq(s, i, i + Len(pat) - 1) = pat

\* String.prototype.replace with a string pattern: the first occurrence only.
replace(s, pat, rep) ==
    LET hits == {i \in 1..(Len(s) + 1) : Occurs(s, pat, i)}
    IN  IF hits = {} THEN s
        ELSE LET i == CHOOSE h \in hits : \A g \in hits : h <= g
             IN  SubSeq(s, 1, i - 1) \o rep \o SubSeq(s, i + Len(pat), Len(s))

\* The keys of the bucket that start with the prefix, in listing order.
Matching(prefix) ==
    SelectSeq(KeyOrder, LAMBDA k : k \in DOMAIN bucket /\ IsPrefix(prefix, k))

Min2(a, b) == IF a <= b THEN a ELSE b

\* s3.listObjectsV2({Prefix, ContinuationToken}): one page.  Token 0 stands
\* for no token.  A store that truncates "always" reports every page as
\* truncated and wraps around at the end of the listing.
listObjectsV2(prefix, token) ==
    LET all == Matching(prefix)
        from == IF token = 0 THEN 1 ELSE token
        upto == Min2(from + s3.pageSize - 1, Len(all))
    IN  [Contents |-> SubSeq(all, from, upto),
         IsTruncated |-> (s3.truncates = "always" \/ upto < Len(all)),
         NextContinuationToken |-> IF upto < Len(all) THEN upto + 1 ELSE 1]

\* Mutant of copyObject: the copy is appended to the object that is there.
copyObject_Append(b, from, to) ==
    Put(b, to, IF to \in DOMAIN b THEN b[to] \o b[from] ELSE b[from])

\* s3.copyObject({CopySource, Key}): the destination holds the source's content.
copyObject(b, from, to) == Put(b, to, b[from])

\* Mutant of bucketMissing: the bucket name is used unchecked.
bucketMissing_Unchecked(name) == FALSE

\* !process.env.S3_BUCKET
bucketMissing(name) == Falsy(name)

\* Mutant of depthExceeded: no ceiling on the pages.
depthExceeded_NoCeiling(depth) == FALSE

\* Mutant of depthExceeded: the ceiling is reached one call earlier.
depthExceeded_AtCeiling(depth) == depth >= maxDepth

\* depth > maxDepth
depthExceeded(depth) == depth > maxDepth

\* Mutant of truncated: the continuation of a truncated listing is dropped.
truncated_Never(page) == FALSE

\* if (listedObjects.IsTruncated)
truncated(page) == page.IsTruncated

\* object.Key.replace(sourcePrefix, destinationPrefix)
destinationKey(key, c) == replace(key, c.sourcePrefix, c.destinationPrefix)

\* Mutant of rethrow: the catch block only logs, the call returns normally.
rethrow_LogOnly(c, kind) == [c EXCEPT !.state = "ok"]

\* catch (error) { throw new Error(`Failed to copy folder: ...`) }: the call
\* ends with a failure that keeps the cause.
rethrow(c, kind) == [c EXCEPT !.state = "failed", !.error = kind]

\* The call copyS3Folder(sourcePrefix, destinationPrefix, token, depth) up to
\* its await of listObjectsV2.  The two checks are outside the try block; a
\* nested call is awaited inside its caller's try block.
enter(c) ==
    IF bucketMissing(env)
    THEN IF c.depth = 0 THEN [c EXCEPT !.state = "failed", !.error = "config"]
                        ELSE rethrow(c, "config")
    ELSE IF depthExceeded(c.depth)
    THEN IF c.depth = 0 THEN [c EXCEPT !.state = "failed", !.error = "depth"]
                        ELSE rethrow(c, "depth")
    ELSE [c EXCEPT !.state = "listing", !.lists = @ + 1]

\* Mutant of chunkAt: the copies of the whole page are issued at once.
chunkAt_WholePage(c, i) ==
    LET keys == {c.page.Contents[j] : j \in i..Len(c.page.Contents)}
    IN  [c EXCEPT !.state = "copying", !.chunk = i, !.inflight = keys,
                  !.copies = @ + Cardinality(keys)]

\* The chunk of at most maxConcurrency keys that starts at index i of the
\* page: Promise.all issues a copy for each of its keys.
chunkAt(c, i) ==
    LET last == Min2(i + maxConcurrency - 1, Len(c.page.Contents))
        keys == {c.page.Contents[j] : j \in i..last}
    IN  [c EXCEPT !.state = "copying", !.chunk = i, !.inflight = keys,
                  !.copies = @ + Cardinality(keys)]

\* Mutant of listed: a listing without objects is taken for a failure.
listed_EmptyFails(c, page) ==
    IF Len(page.Contents) = 0
    THEN [c EXCEPT !.state = "failed", !.error = "empty", !.page = page]
    ELSE chunkAt([c EXCEPT !.page = page], 1)

\* The listing arrived: return on an empty page, else start the first chunk.
listed(c, page) ==
    IF Len(page.Contents) = 0
    THEN [c EXCEPT !.state = "ok", !.page = page]
    ELSE chunkAt([c EXCEPT !.page = page], 1)

\* All copies of the chunk succeeded: the next chunk, or the nested call for
\* the next page, or the return.
chunkDone(c) ==
    IF c.chunk + maxConcurrency <= Len(c.page.Contents)
    THEN chunkAt(c, c.chunk + maxConcurrency)
    ELSE IF truncated(c.page)
    THEN enter([c EXCEPT !.token = c.page.NextContinuationToken,
                         !.depth = @ + 1, !.inflight = {}])
    ELSE [c EXCEPT !.state = "ok", !.inflight = {}]

\* copyS3Folder(`base/${language}`, `code/${replId}`)
copyS3Folder(language, replId) ==
    enter([NoCall EXCEPT !.sourcePrefix = sourcePrefix(language),
                         !.destinationPrefix = destinationPrefix(replId)])

\* Mutant of badRequest: only replId is looked at.
badRequest_ReplIdOnly(body) == Falsy(body.replId)

\* !replId || !language
badRequest(body) == Falsy(body.replId) \/ Falsy(body.language)

\* projectHandler once copyS3Folder settled: 200 in the try block, 500 in
\* the catch block.
respond(post, c) ==
    IF c.state = "ok" THEN [post EXCEPT !.responses = Append(@, 200)]
    ELSE IF c.state = "failed" THEN [post EXCEPT !.responses = Append(@, 500)]
    ELSE post

\* The handler of the latest request goes on when the call settles.  What
\* the call came to, and the bucket of a successful return, are remembered
\* with the request (history).
Settle ==
    posts' = [posts EXCEPT ![Len(posts)] =
                 [respond(@, prov') EXCEPT
                     !.outcome = prov'.state,
                     !.after = IF prov'.state = "ok" THEN bucket' ELSE @]]

Busy == prov.state \in {"listing", "copying"}

\* app.post("/project", projectHandler): the handler up to its response for
\* a bad request, else up to the first await inside copyS3Folder.
PostProject(body) ==
    /\ Len(posts) < MaxPosts
    /\ ~Busy
    /\ LET post == [body |-> body, calls |-> 0, responses |-> <<>>,
                    outcome |-> "none", after |-> <<>>]
       IN  IF badRequest(body)
           THEN /\ posts' = Append(posts, [post EXCEPT !.responses = <<400>>])
                /\ UNCHANGED prov
           ELSE /\ prov' = copyS3Folder(body.language, body.replId)
                /\ posts' = Append(posts,
                               [respond([post EXCEPT !.calls = 1], prov') EXCEPT
                                   !.outcome = prov'.state])
    /\ UNCHANGED <<env, bucket, s3, strays, faults, ptyVars, wsVars, fileVars, treeVars, matVars>>

\* s3.listObjectsV2 answered with a page.
ListDone ==
    /\ prov.state = "listing"
    /\ prov' = listed(prov, listObjectsV2(prov.sourcePrefix, prov.token))
    /\ UNCHANGED <<env, bucket, s3, strays, faults, ptyVars, wsVars, fileVars, treeVars, matVars>>
    /\ Settle

\* s3.listObjectsV2 rejected.
ListFail ==
    /\ prov.state = "listing"
    /\ faults > 0
    /\ faults' = faults - 1
    /\ prov' = [rethrow(prov, "list") EXCEPT !.storeFailed = TRUE]
    /\ UNCHANGED <<env, bucket, s3, strays, ptyVars, wsVars, fileVars, treeVars, matVars>>
    /\ Settle

\* One s3.copyObject of the running chunk succeeded.
CopyDone(key) ==
    /\ prov.state = "copying"
    /\ key \in prov.inflight
    /\ bucket' = copyObject(bucket, key, destinationKey(key, prov))
    /\ prov' = IF prov.inflight = {key}
               THEN chunkDone(prov)
               ELSE [prov EXCEPT !.inflight = @ \ {key}]
    /\ UNCHANGED <<env, s3, strays, faults, ptyVars, wsVars, fileVars, treeVars, matVars>>
    /\ Settle

\* One s3.copyObject of the running chunk rejected: Promise.all rejects at
\* once, the other copies of the chunk stay in flight.
CopyFail(key) ==
    /\ prov.state = "copying"
    /\ key \in prov.inflight
    /\ faults > 0
    /\ faults' = faults - 1
    /\ prov' = [rethrow([prov EXCEPT !.inflight = {}], "copy") EXCEPT
                   !.storeFailed = TRUE]
    /\ strays' = strays \cup
                    {[from |-> k, to |-> destinationKey(k, prov)] :
                        k \in prov.inflight \ {key}}
    /\ UNCHANGED <<env, bucket, s3, ptyVars, wsVars, fileVars, treeVars, matVars>>
    /\ Settle

\* A copy that outlived its call succeeded.
StrayDone(copy) ==
    /\ copy \in strays
    /\ bucket' = copyObject(bucket, copy.from, copy.to)
    /\ strays' = strays \ {copy}
    /\ UNCHANGED <<env, s3, posts, prov, faults, ptyVars, wsVars, fileVars, treeVars, matVars>>

\* A copy that outlived its call rejected: nothing awaits it any more.
StrayFail(copy) ==
    /\ copy \in strays
    /\ strays' = strays \ {copy}
    /\ UNCHANGED <<env, bucket, s3, posts, prov, faults, ptyVars, wsVars, fileVars, treeVars, matVars>>

\* A bucket that holds one template, a store with one way of paging, and a
\* process started with or without S3_BUCKET.
InitProv ==
    /\ InitPtyVars
    /\ sock = [s \in SocketIds |-> [state |-> "idle", replId |-> Undefined, loaded |-> 0]]
    /\ mode = "warn"
    /\ crashed = FALSE
    /\ InitFileVars
    /\ env \in BucketNames
    /\ \E n \in Sizes : bucket = Template("node", n)
    /\ s3 \in [pageSize : PageSizes, truncates : Truncations]
    /\ posts = <<>>
    /\ prov = NoCall
    /\ strays = {}
    /\ faults = MaxFaults
    /\ InitTreeVars
    /\ InitMatVars

NextProv ==
    \/ \E body \in Bodies : PostProject(body)
    \/ ListDone
    \/ ListFail
    \/ \E key \in prov.inflight : CopyDone(key)
    \/ \E key \in prov.inflight : CopyFail(key)
    \/ \E copy \in strays : StrayDone(copy)
    \/ \E copy \in strays : StrayFail(copy)

SpecProv == InitProv /\ [][NextProv]_vars

\* A request that was refused for its missing replId.
Refused ==
    [body |-> [replId |-> "", language |-> "node"], calls |-> 0,
     responses |-> <<400>>, outcome |-> "none", after |-> <<>>]

\* The state in which all requests but the last were refused, the bucket
\* name is configured and the store fails at most once.
InitProvFair ==
    /\ InitPtyVars
    /\ sock = [s \in SocketIds |-> [state |-> "idle", replId |-> Undefined, loaded |-> 0]]
    /\ mode = "warn"
    /\ crashed = FALSE
    /\ InitFileVars
    /\ env = "repl-bucket"
    /\ \E n \in Sizes : bucket = Template("node", n)
    /\ s3 \in [pageSize : PageSizes, truncates : Truncations]
    /\ posts = [i \in 1..(MaxPosts - 1) |-> Refused]
    /\ prov = NoCall
    /\ strays = {}
    /\ faults = 1
    /\ InitTreeVars
    /\ InitMatVars

\* The store answers every call sooner or later.
SpecProvFair == InitProvFair /\ [][NextProv]_vars /\ WF_vars(NextProv)

(***************************************************************************)
(* SpecChunk: one copyS3Folder call over a template whose first page is    *)
(* wider than a chunk and whose listing spans two pages.                   *)
(***************************************************************************)

InitChunk ==
    /\ InitPtyVars
    /\ sock = [s \in SocketIds |-> [state |-> "idle", replId |-> Undefined, loaded |-> 0]]
    /\ mode = "warn"
    /\ crashed = FALSE
    /\ InitFileVars
    /\ env = "repl-bucket"
    /\ bucket = Template("node", maxConcurrency + 2)
    /\ s3 = [pageSize |-> maxConcurrency + 1, truncates |-> "honest"]
    /\ posts = [i \in 1..(MaxPosts - 1) |-> Refused]
    /\ prov = NoCall
    /\ strays = {}
    /\ faults = MaxFaults
    /\ InitTreeVars
    /\ InitMatVars

SpecChunk == InitChunk /\ [][NextProv]_vars

(***************************************************************************)
(* SpecSibling: POST /project on a bucket that also holds the template     *)
(* node-js, whose id starts with the id of the template node.              *)
(***************************************************************************)

\* The template node-js: the object base/node-js/f01.
Sibling ==
    [k \in {<<"base/", "node", "-js", "/", FileName(1)>>} |-> <<"content of", "node-js">>]

InitSibling ==
    /\ InitPtyVars
    /\ sock = [s \in SocketIds |-> [state |-> "idle", replId |-> Undefined, loaded |-> 0]]
    /\ mode = "warn"
    /\ crashed = FALSE
    /\ InitFileVars
    /\ env = "repl-bucket"
    /\ \E n \in {1, 2} : bucket = Template("node", n) @@ Sibling
    /\ s3 \in [pageSize : PageSizes, truncates : {"honest"}]
    /\ posts = <<>>
    /\ prov = NoCall
    /\ strays = {}
    /\ faults = MaxFaults
    /\ InitTreeVars
    /\ InitMatVars

SpecSibling == InitSibling /\ [][NextProv]_vars

(***************************************************************************)
(* SpecTerm: the terminal traffic of one open connection: requestTerminal, *)
(* terminalData, and the output and the exit of its shells.                *)
(***************************************************************************)

\* The data listener of a shell is called with its next chunk.
PtyChunk(pid) ==
    /\ ~crashed
    /\ procs[pid].state # "exited"
    /\ Outputs < MaxChunks
    /\ onData(pid)
    /\ procs' = [procs EXCEPT ![pid].out = @ + 1]
    /\ UNCHANGED <<sessions, sent, thrown, phase, lastCall, calls, wsVars, fileVars, provVars, treeVars, matVars>>

InitTerm ==
    /\ InitPtyVars
    /\ InitFileVars
    /\ InitProvVars
    /\ InitTreeVars
    /\ sock = [s \in SocketIds |->
                 IF s = "s1"
                 THEN [state |-> "open", replId |-> "r1", loaded |-> 1]
                 ELSE [state |-> "idle", replId |-> Undefined, loaded |-> 0]]
    /\ mode \in {"warn", "throw"}
    /\ crashed = FALSE
    /\ InitMatVars

NextTerm ==
    \/ \E s \in SocketIds : RequestTerminal(s)
    \/ \E s \in SocketIds : TerminalData(s)
    \/ \E pid \in Pids : PtyChunk(pid)
    \/ \E pid \in Pids : PtyExit(pid)

SpecTerm == InitTerm /\ [][NextTerm]_vars

(***************************************************************************)
(* SpecTree: the directory listings of one connection and the client's     *)
(* accumulated entry list (fetchDir of the mirror, the fetchDir handler,   *)
(* the 'loaded' listener and onSelect of the coding page).                 *)
(***************************************************************************)

Client == "s1"

\* Dirent records of fs.readdir(dir, {withFileTypes: true}).
Dir(name) == [name |-> name, isDirectory |-> TRUE]
File(name) == [name |-> name, isDirectory |-> FALSE]

\* The directories of /workspace by their path relative to it, each with
\* its entries in the order readdir enumerates them.
Trees ==
    {[d \in {"", "/a"} |->
         IF d = "" THEN <<Dir("a"), File("b.txt")>> ELSE <<File("x.txt")>>],
     [d \in {"", "/a"} |->
         IF d = "" THEN <<File("b.txt"), Dir("a")>> ELSE <<File("x.txt")>>],
     [d \in {"", "/a", "/e"} |->
         IF d = "" THEN <<Dir("a"), File("b.txt"), Dir("e")>>
         ELSE IF d = "/a" THEN <<File("x.txt")>> ELSE <<>>]}

NoDir == "ENOENT"

\* `/workspace/${dir}`
dirPath(dir) == "/workspace/" \o dir

\* The directory a path names, if it names one.
Resolve(path) ==
    IF path = "/workspace" THEN ""
    ELSE IF \E d \in DOMAIN disk : path = dirPath(d)
    THEN CHOOSE d \in DOMAIN disk : path = dirPath(d)
    ELSE NoDir

\* Mutant of fetchDir: a directory without entries is reported as an error.
fetchDir_RejectEmpty(dir, baseDir) ==
    IF Resolve(dir) = NoDir \/ disk[Resolve(dir)] = <<>>
    THEN [err |-> TRUE, files |-> <<>>]
    ELSE [err |-> FALSE,
          files |-> [i \in DOMAIN disk[Resolve(dir)] |->
                        [type |-> IF disk[Resolve(dir)][i].isDirectory
                                  THEN "dir" ELSE "file",
                         name |-> disk[Resolve(dir)][i].name,
                         path |-> (baseDir \o "/") \o disk[Resolve(dir)][i].name]]]

\* Mutant of fetchDir: isDirectory() is not looked at, every entry is a file.
fetchDir_AllFiles(dir, baseDir) ==
    IF Resolve(dir) = NoDir
    THEN [err |-> TRUE, files |-> <<>>]
    ELSE [err |-> FALSE,
          files |-> [i \in DOMAIN disk[Resolve(dir)] |->
                        [type |-> "file",
                         name |-> disk[Resolve(dir)][i].name,
                         path |-> (baseDir \o "/") \o disk[Resolve(dir)][i].name]]]

\* fetchDir(dir, baseDir): reject on readdir's error, else resolve with one
\* {type, name, path} per entry, in readdir's order.
fetchDir(dir, baseDir) ==
    IF Resolve(dir) = NoDir
    THEN [err |-> TRUE, files |-> <<>>]
    ELSE [err |-> FALSE,
          files |-> [i \in DOMAIN disk[Resolve(dir)] |->
                        [type |-> IF disk[Resolve(dir)][i].isDirectory
                                  THEN "dir" ELSE "file",
                         name |-> disk[Resolve(dir)][i].name,
                         path |-> (baseDir \o "/") \o disk[Resolve(dir)][i].name]]]

\* self.findIndex(f => f.path === path): the first index with the path.
findIndex(self, path) ==
    CHOOSE i \in DOMAIN self :
        self[i].path = path /\ \A j \in 1..(i - 1) : self[j].path # path

\* allFiles.filter((file, index, self) => index === self.findIndex(...)),
\* from index i on.
RECURSIVE filter(_, _)
filter(self, i) ==
    IF i > Len(self) THEN <<>>
    ELSE IF i = findIndex(self, self[i].path)
    THEN <<self[i]>> \o filter(self, i + 1)
    ELSE filter(self, i + 1)

\* Mutant of merge: the response is appended unfiltered.
merge_Concat(prev, data) == prev \o data

\* setFileStructure(prev => ...) of onSelect: [...prev, ...data] filtered.
merge(prev, data) == filter(prev \o data, 1)

\* History: the entry received last for each path of a listing.
Noted(data) ==
    [p \in DOMAIN latest \cup {data[i].path : i \in DOMAIN data} |->
        IF \E i \in DOMAIN data : data[i].path = p
        THEN data[CHOOSE i \in DOMAIN data : data[i].path = p]
        ELSE latest[p]]

TreeUp == ~crashed /\ sock[Client].state = "open"

\* io.on("connection"): emit "loaded" with fetchDir("/workspace", ""); the
\* client's 'loaded' listener stores rootContent.
Loaded ==
    /\ TreeUp
    /\ ~loaded
    /\ loaded' = TRUE
    /\ fileStructure' = fetchDir("/workspace", "").files
    /\ latest' = Noted(fileStructure')
    /\ UNCHANGED <<disk, fetches, acks, edits, ptyVars, wsVars, fileVars, provVars, matVars>>

\* onSelect(file) of a directory: socket.emit("fetchDir", file.path, ack).
Select(i) ==
    /\ TreeUp
    /\ loaded
    /\ fileStructure[i].type = "dir"
    /\ Len(fetches) < MaxFetches
    /\ fetches' = Append(fetches, [dir |-> fileStructure[i].path, state |-> "sent",
                                   data |-> <<>>, empty |-> FALSE])
    /\ UNCHANGED <<disk, fileStructure, loaded, acks, latest, edits,
                   ptyVars, wsVars, fileVars, provVars, matVars>>

\* socket.on("fetchDir"): await fetchDir(`/workspace/${dir}`, dir), then
\* callback(contents); a rejection leaves the handler, nothing is answered.
\* Whether the directory was there and empty is remembered (history).
FetchDir(i) ==
    /\ TreeUp
    /\ fetches[i].state = "sent"
    /\ LET r == fetchDir(dirPath(fetches[i].dir), fetches[i].dir)
           wasEmpty == fetches[i].dir \in DOMAIN disk /\ disk[fetches[i].dir] = <<>>
       IN  IF r.err
           THEN /\ fetches' = [fetches EXCEPT ![i].state = "rejected",
                                              ![i].empty = wasEmpty]
                /\ UnhandledRejection
                /\ UNCHANGED acks
           ELSE /\ fetches' = [fetches EXCEPT ![i].state = "answered",
                                              ![i].data = r.files,
                                              ![i].empty = wasEmpty]
                /\ acks' = Append(acks, i)
                /\ UNCHANGED crashed
    /\ UNCHANGED <<disk, fileStructure, loaded, latest, edits,
                   ptyVars, sock, mode, fileVars, provVars, matVars>>

\* The acknowledgement reaches the client: the callback of onSelect merges
\* the response into fileStructure.
Ack ==
    /\ TreeUp
    /\ acks # <<>>
    /\ LET i == Head(acks)
       IN  /\ fileStructure' = merge(fileStructure, fetches[i].data)
           /\ latest' = Noted(fetches[i].data)
           /\ fetches' = [fetches EXCEPT ![i].state = "merged"]
    /\ acks' = Tail(acks)
    /\ UNCHANGED <<disk, loaded, edits, ptyVars, wsVars, fileVars, provVars, matVars>>

\* The user's shell replaces an entry by one of the other kind: a file by
\* an empty directory, or an empty directory by a file.
Retype(d, i) ==
    /\ ~crashed
    /\ edits > 0
    /\ edits' = edits - 1
    /\ LET e == disk[d][i]
           child == (d \o "/") \o e.name
       IN  IF e.isDirectory
           THEN /\ disk[child] = <<>>
                /\ disk' = Remove([disk EXCEPT ![d][i] = File(e.name)], child)
           ELSE disk' = Put([disk EXCEPT ![d][i] = Dir(e.name)], child, <<>>)
    /\ UNCHANGED <<fileStructure, loaded, fetches, acks, latest,
                   ptyVars, wsVars, fileVars, provVars, matVars>>

\* The sequence without its i-th element.
Without(seq, i) == SubSeq(seq, 1, i - 1) \o SubSeq(seq, i + 1, Len(seq))

\* The user's shell removes an entry: a file, or an empty directory.
Unlink(d, i) ==
    /\ ~crashed
    /\ edits > 0
    /\ edits' = edits - 1
    /\ LET e == disk[d][i]
           child == (d \o "/") \o e.name
       IN  IF e.isDirectory
           THEN /\ disk[child] = <<>>
                /\ disk' = Remove([disk EXCEPT ![d] = Without(@, i)], child)
           ELSE disk' = [disk EXCEPT ![d] = Without(@, i)]
    /\ UNCHANGED <<fileStructure, loaded, fetches, acks, latest,
                   ptyVars, wsVars, fileVars, provVars, matVars>>

\* One connection that was accepted and is about to be sent 'loaded'.
InitTree ==
    /\ InitPtyVars
    /\ InitFileVars
    /\ InitProvVars
    /\ sock = [s \in SocketIds |->
                 IF s = Client
                 THEN [state |-> "open", replId |-> "r1", loaded |-> 0]
                 ELSE [state |-> "idle", replId |-> Undefined, loaded |-> 0]]
    /\ mode \in {"warn", "throw"}
    /\ crashed = FALSE
    /\ disk \in Trees
    /\ fileStructure = <<>>
    /\ loaded = FALSE
    /\ fetches = <<>>
    /\ acks = <<>>
    /\ latest = <<>>
    /\ edits = MaxEdits
    /\ InitMatVars

NextTree ==
    \/ Loaded
    \/ \E i \in DOMAIN fileStructure : Select(i)
    \/ \E i \in DOMAIN fetches : FetchDir(i)
    \/ Ack
    \/ \E d \in DOMAIN disk : \E i \in DOMAIN disk[d] : Retype(d, i)
    \/ \E d \in DOMAIN disk : \E i \in DOMAIN disk[d] : Unlink(d, i)

SpecTree == InitTree /\ [][NextTree]_vars

(***************************************************************************)
(* SpecMat: a workspace is materialised under /workspace by fetchS3Folder, *)
(* listed by the gateway and written back by updateContent.  Keys and      *)
(* paths are sequences of symbols, "/" being a symbol of its own.          *)
(***************************************************************************)

\* The workspace of n files at its top and, if nested, a file in a folder.
Workspace(replId, n, nested) ==
    [k \in {destinationPrefix(replId) \o <<"/", FileName(i)>> : i \in 1..n} \cup
           (IF nested THEN {destinationPrefix(replId) \o <<"/", "a", "/", "x">>}
                      ELSE {}) |->
        <<"content of", k[Len(k)]>>]

MatSizes == {0, 1, 2, 4}
Edited == <<"edited">>

\* How the file system reads a path: its names, whatever the number of
\* slashes between them.
Components(path) == SelectSeq(path, LAMBDA t : t # "/")

\* fs.readdir(dir, {withFileTypes: true}) over the files of the mirror.
readdir(dir) ==
    {[name |-> f[Len(dir) + 1], isDirectory |-> Len(f) > Len(dir) + 1] :
        f \in {g \in DOMAIN mirror : Len(g) > Len(dir) /\ SubSeq(g, 1, Len(dir)) = dir}}

\* fetchDir(dir, baseDir) of the gateway: {type, name, path} per entry, with
\* path = `${baseDir}/${file.name}`.
fetchDirEntries(dir, baseDir) ==
    {[type |-> IF e.isDirectory THEN "dir" ELSE "file",
      name |-> e.name,
      path |-> baseDir \o <<"/", e.name>>] : e \in readdir(Components(dir))}

\* `${localPath}/${fileKey.replace(key, "")}`
fetchedFilePath(key, localPath, fileKey) ==
    localPath \o <<"/">> \o replace(fileKey, key, <<>>)

\* `/workspace/${filePath}` of the updateContent handler (and `/workspace/${dir}`
\* of the fetchDir handler).
fullPath(path) == <<"/", "workspace", "/">> \o path

\* Mutant of putKey: prefix and path are joined with a slash.
putKey_Slash(key, path) == key \o <<"/">> \o path

\* Key: `${key}${filePath}` of saveToS3
putKey(key, path) == key \o path

\* What fetchS3Folder does with the answer of its one listObjectsV2 call:
\* the loop over response.Contents.
fetchS3FolderListed(c, page) ==
    IF Len(page.Contents) = 0
    THEN [c EXCEPT !.state = "done"]
    ELSE [c EXCEPT !.state = "getting", !.todo = page.Contents]

\* One round of the loop is over: the next file, or the return.
fetchS3FolderNext(c) ==
    IF Len(c.todo) = 1
    THEN [c EXCEPT !.state = "done", !.todo = <<>>]
    ELSE [c EXCEPT !.todo = Tail(@)]

\* fs.writeFile stores the body in the file the path resolves to; which key
\* the file was materialised from is remembered with it (history).
Stored(m, path, body, key) ==
    Put(m, Components(path), [body |-> body, key |-> key])

\* fetchS3Folder(key, "/workspace") up to its await of listObjectsV2.
FetchS3Folder(key) ==
    /\ mat.state = "idle"
    /\ mat' = [NoFetch EXCEPT !.state = "listing", !.key = key,
                              !.localPath = <<"/", "workspace">>, !.lists = 1]
    /\ UNCHANGED <<mirror, known, updates, ptyVars, wsVars, fileVars, provVars, treeVars>>

\* s3.listObjectsV2 answered with a page.
FetchListed ==
    /\ mat.state = "listing"
    /\ mat' = fetchS3FolderListed(mat, listObjectsV2(mat.key, 0))
    /\ UNCHANGED <<mirror, known, updates, ptyVars, wsVars, fileVars, provVars, treeVars>>

\* s3.getObject answered and writeFile (mkdir -p, then fs.writeFile) wrote
\* the body under localPath.
FetchWritten ==
    /\ mat.state = "getting"
    /\ LET fileKey == Head(mat.todo)
       IN  mirror' = Stored(mirror, fetchedFilePath(mat.key, mat.localPath, fileKey),
                            bucket[fileKey], fileKey)
    /\ mat' = fetchS3FolderNext(mat)
    /\ UNCHANGED <<known, updates, ptyVars, wsVars, fileVars, provVars, treeVars>>

\* A store call of fetchS3Folder rejected: the call rejects, nothing inside
\* it catches.
FetchFail ==
    /\ mat.state \in {"listing", "getting"}
    /\ faults > 0
    /\ faults' = faults - 1
    /\ mat' = [mat EXCEPT !.state = "failed"]
    /\ UNCHANGED <<mirror, known, updates, env, bucket, s3, posts, prov, strays,
                   ptyVars, wsVars, fileVars, treeVars>>

\* The gateway lists a directory of the materialised workspace for the
\* client: the root on connection (fetchDir("/workspace", "")), a listed
\* directory on fetchDir (fetchDir(`/workspace/${dir}`, dir)).
ListRoot ==
    /\ mat.state = "done"
    /\ known' = known \cup fetchDirEntries(<<"/", "workspace">>, <<>>)
    /\ UNCHANGED <<mirror, mat, updates, ptyVars, wsVars, fileVars, provVars, treeVars>>

ListDir(e) ==
    /\ mat.state = "done"
    /\ e.type = "dir"
    /\ known' = known \cup fetchDirEntries(fullPath(e.path), e.path)
    /\ UNCHANGED <<mirror, mat, updates, ptyVars, wsVars, fileVars, provVars, treeVars>>

\* socket.on("updateContent") with the path of a listed file: saveFile
\* writes `/workspace/${filePath}`, saveToS3 puts under `code/${replId}`.
\* The file and the key that were addressed are remembered (history).
UpdateListed(e, content) ==
    /\ mat.state = "done"
    /\ e.type = "file"
    /\ Len(updates) < MaxUpdates
    /\ LET file == Components(fullPath(e.path))
           key == putKey(destinationPrefix(sock[Client].replId), e.path)
       IN  /\ mirror' = Stored(mirror, fullPath(e.path), content,
                               IF file \in DOMAIN mirror THEN mirror[file].key
                                                         ELSE <<>>)
           /\ bucket' = Put(bucket, key, content)
           /\ updates' = Append(updates, [path |-> e.path, file |-> file, key |-> key])
    /\ UNCHANGED <<mat, known, env, s3, posts, prov, strays, faults,
                   ptyVars, wsVars, fileVars, treeVars>>

\* A provisioned workspace and a connection of it, before the workspace is
\* materialised.
InitMat ==
    /\ InitPtyVars
    /\ InitFileVars
    /\ InitTreeVars
    /\ InitMatVars
    /\ sock = [s \in SocketIds |->
                 IF s = Client
                 THEN [state |-> "open", replId |-> "w1", loaded |-> 0]
                 ELSE [state |-> "idle", replId |-> Undefined, loaded |-> 0]]
    /\ mode = "warn"
    /\ crashed = FALSE
    /\ env = "repl-bucket"
    /\ \E n \in MatSizes, nested \in BOOLEAN : bucket = Workspace("w1", n, nested)
    /\ s3 \in [pageSize : PageSizes, truncates : Truncations]
    /\ posts = <<>>
    /\ prov = NoCall
    /\ strays = {}
    /\ faults = MaxFaults

NextMat ==
    \/ \E w \in Workspaces :
          \E key \in {destinationPrefix(w), destinationPrefix(w) \o <<"/">>} :
             FetchS3Folder(key)
    \/ FetchListed
    \/ FetchWritten
    \/ FetchFail
    \/ ListRoot
    \/ \E e \in known : ListDir(e)
    \/ \E e \in known : UpdateListed(e, Edited)

SpecMat == InitMat /\ [][NextMat]_vars

(***************************************************************************)
(* SpecView: the client builds its file tree from the entries it has       *)
(* accumulated (buildFileTree, findFileByName of file-manager.tsx).  The   *)
(* tree is kept by reference: a directory's dirs and files are the ids of  *)
(* its children, in the order they were pushed.                            *)
(***************************************************************************)

\* A workspace with a directory inside a directory and three files of one
\* name.
Deep ==
    [d \in {"", "/a", "/a/c"} |->
        IF d = "" THEN <<Dir("a"), File("x.txt")>>
        ELSE IF d = "/a" THEN <<Dir("c"), File("x.txt")>>
        ELSE <<File("x.txt")>>]

\* The segment sequences of the paths: the names of the entries and the
\* empty segment before the leading slash.
PathSeqs == UNION {[1..n -> {"", "a", "b.txt", "c", "e", "x.txt"}] : n \in 1..4}

\* Array.prototype.join("/")
RECURSIVE join(_)
join(segs) ==
    IF Len(segs) = 1 THEN segs[1]
    ELSE (join(SubSeq(segs, 1, Len(segs) - 1)) \o "/") \o segs[Len(segs)]

\* String.prototype.split("/"): the segments that, joined, give the path.
split(path) == CHOOSE segs \in PathSeqs : join(segs) = path

\* parentId of an item: "0" for a path of two segments, else the path of
\* the directory found under the item's path without its last segment,
\* undefined when dirs.find finds none.
parentId(item, dirs) ==
    LET segs == split(item.path)
        up == join(SubSeq(segs, 1, Len(segs) - 1))
    IN  IF Len(segs) = 2 THEN "0"
        ELSE IF \E i \in DOMAIN dirs : dirs[i].path = up THEN up
        ELSE Undefined

\* The cache after the two forEach loops over dirs and files: a Map keeps a
\* key at the place of its first set and the value of its last set.
cacheOf(data) ==
    LET dirs == SelectSeq(data, LAMBDA x : x.type = "dir")
        fileItems == SelectSeq(data, LAMBDA x : x.type = "file")
        items == dirs \o fileItems
        value(i) == [id |-> items[i].path, name |-> items[i].name,
                     path |-> items[i].path, parentId |-> parentId(items[i], dirs),
                     type |-> items[i].type]
        keys == filter(items, 1)
    IN  [order |-> [i \in DOMAIN keys |-> keys[i].path],
         get |-> [id \in {items[i].path : i \in DOMAIN items} |->
                     value(CHOOSE i \in DOMAIN items :
                              /\ items[i].path = id
                              /\ \A j \in DOMAIN items : items[j].path = id => j <= i)]]

\* cache.forEach of buildFileTree: what was pushed to the dirs or files of
\* the directory with the given id ("0" stands for rootDir), in the order
\* of the cache.
pushed(cache, id, type) ==
    SelectSeq(cache.order,
              LAMBDA k : cache.get[k].parentId = id /\ cache.get[k].type = type)

\* Mutant of getDepth: the recursion passes curDepth on unchanged.
RECURSIVE getDepth_Flat(_, _, _)
getDepth_Flat(cache, id, curDepth) ==
    LET fileIds == pushed(cache, id, "file")
        dirs == pushed(cache, id, "dir")
    IN  {<<fileIds[i], curDepth + 1>> : i \in DOMAIN fileIds} \cup
        {<<dirs[i], curDepth + 1>> : i \in DOMAIN dirs} \cup
        UNION {getDepth_Flat(cache, dirs[i], curDepth) : i \in DOMAIN dirs}

\* getDepth(rootDir, curDepth): the depths it assigns, as <<id, depth>>.
RECURSIVE getDepth(_, _, _)
getDepth(cache, id, curDepth) ==
    LET fileIds == pushed(cache, id, "file")
        dirs == pushed(cache, id, "dir")
    IN  {<<fileIds[i], curDepth + 1>> : i \in DOMAIN fileIds} \cup
        {<<dirs[i], curDepth + 1>> : i \in DOMAIN dirs} \cup
        UNION {getDepth(cache, dirs[i], curDepth + 1) : i \in DOMAIN dirs}

\* buildFileTree(data): the tree by reference, or that the call threw: when
\* cache.get(value.parentId) gives no directory, pushing to its dirs or
\* files throws a TypeError.
buildFileTree(data) ==
    LET cache == cacheOf(data)
        throws == \E k \in DOMAIN cache.get :
                      /\ cache.get[k].parentId # "0"
                      /\ \/ cache.get[k].parentId \notin DOMAIN cache.get
                         \/ cache.get[cache.get[k].parentId].type # "dir"
    IN  IF throws
        THEN [threw |-> TRUE, cache |-> cache, depth |-> {}]
        ELSE [threw |-> FALSE, cache |-> cache, depth |-> getDepth(cache, "0", 0)]

\* const rootDir = useMemo(() => buildFileTree(files), [files])
rootDir == buildFileTree(fileStructure)

RECURSIVE findFile(_, _, _, _)
RECURSIVE findIn(_, _, _, _, _)

\* Mutant of findFile: a file that was found is kept, the search goes on
\* without replacing it.
findFile_FirstMatch(cache, id, filename, targetFile) ==
    LET fileIds == pushed(cache, id, "file")
        hits == {i \in DOMAIN fileIds : cache.get[fileIds[i]].name = filename}
        own == IF targetFile # Undefined \/ hits = {} THEN targetFile
               ELSE fileIds[CHOOSE i \in hits : \A j \in hits : i <= j]
    IN  findIn(cache, pushed(cache, id, "dir"), 1, filename, own)

\* findFile(rootDir, filename): targetFile after the two forEach loops.
\* Every file of the directory with the name is assigned in turn, then the
\* directories are searched in turn.
findFile(cache, id, filename, targetFile) ==
    LET fileIds == pushed(cache, id, "file")
        hits == {i \in DOMAIN fileIds : cache.get[fileIds[i]].name = filename}
        own == IF hits = {} THEN targetFile
               ELSE fileIds[CHOOSE i \in hits : \A j \in hits : j <= i]
    IN  findIn(cache, pushed(cache, id, "dir"), 1, filename, own)

\* rootDir.dirs.forEach(dir => findFile(dir, filename)), from index i on.
findIn(cache, dirs, i, filename, targetFile) ==
    IF i > Len(dirs) THEN targetFile
    ELSE findIn(cache, dirs, i + 1, filename,
                findFile(cache, dirs[i], filename, targetFile))

\* findFileByName(rootDir, filename): the id of the file, or undefined.
findFileByName(tree, filename) == findFile(tree.cache, "0", filename, Undefined)

\* One connection that was accepted and is about to be sent 'loaded'; the
\* workspace is left alone.
InitView ==
    /\ InitPtyVars
    /\ InitFileVars
    /\ InitProvVars
    /\ InitMatVars
    /\ sock = [s \in SocketIds |->
                 IF s = Client
                 THEN [state |-> "open", replId |-> "r1", loaded |-> 0]
                 ELSE [state |-> "idle", replId |-> Undefined, loaded |-> 0]]
    /\ mode = "warn"
    /\ crashed = FALSE
    /\ disk \in Trees \cup {Deep}
    /\ fileStructure = <<>>
    /\ loaded = FALSE
    /\ fetches = <<>>
    /\ acks = <<>>
    /\ latest = <<>>
    /\ edits = 0

NextView ==
    \/ Loaded
    \/ \E i \in DOMAIN fileStructure : Select(i)
    \/ \E i \in DOMAIN fetches : FetchDir(i)
    \/ Ack

SpecView == InitView /\ [][NextView]_vars

(***************************************************************************)
(* Claims about the session manager and the terminal events.               *)
(***************************************************************************)

\* The shells created under a key that are still running.
LiveOf(k) == {p \in Pids : procs[p].cb = k /\ Running(p)}

\* A step that is a call of write / clear for key k.
WriteStep(k) == calls' = calls + 1 /\ lastCall'.op = "write" /\ lastCall'.key = k
ClearStep(k) == calls' = calls + 1 /\ lastCall'.op = "clear" /\ lastCall'.key = k

\* C1: createPty called again for a key without a clear in between leaves
\* exactly one live shell for that key, so a connection never has more than
\* one live shell process, however often it sends requestTerminal.
C1_OneLiveShellPerKey ==
    \A k \in SocketIds : Cardinality(LiveOf(k)) <= 1

\* C2: once a connection's disconnect event was handled, the shell created
\* for the connection is terminated and its key is absent from the map.
C2_DisconnectDestroysSession ==
    \A s \in SocketIds :
        sock[s].state = "closed" => (s \notin DOMAIN sessions /\ LiveOf(s) = {})

\* C3: after a shell's exit event, no entry of the session map refers to an
\* exited process.
C3_ExitRemovesMapping ==
    \A k \in DOMAIN sessions : procs[sessions[k].terminal].state # "exited"

\* C4: the map is the authority on liveness: every running shell is the one
\* recorded in the map under its key; a key absent from the map has no
\* running shell.
C4_MapIsLivenessAuthority ==
    \A p \in Pids :
        Running(p) =>
            (procs[p].cb \in DOMAIN sessions /\ sessions[procs[p].cb].terminal = p)

\* C5: a write (terminalData) for a key for which no createPty ever happened
\* is a no-op: no error, no data delivered to any process, no output event,
\* the session map unchanged.
C5_WriteBeforeCreateIsNoOp ==
    [][\A k \in SocketIds :
          (WriteStep(k) /\ phase[k] = "never") =>
              UNCHANGED <<sessions, procs, emitted, thrown, crashed>>]_vars

C5_Witness ==
    \E k \in SocketIds :
        /\ phase[k] = "never"
        /\ lastCall = [op |-> "write", key |-> k, hit |-> FALSE]
        /\ \E j \in DOMAIN sessions : Running(sessions[j].terminal)

\* C6: after clear(key), a write(key) before the next createPty of the key is
\* a no-op: no data reaches any process (the terminated one included), no
\* error is raised.
C6_WriteAfterDestroyIsNoOp ==
    [][\A k \in SocketIds :
          (WriteStep(k) /\ phase[k] = "destroyed") =>
              UNCHANGED <<sessions, procs, emitted, thrown>>]_vars

C6_Witness ==
    \E k \in SocketIds :
        /\ phase[k] = "destroyed"
        /\ lastCall.op = "write" /\ lastCall.key = k
        /\ \E p \in Pids : procs[p].cb = k /\ procs[p].state = "killed"

\* C7: clear(key) terminates the process mapped to the key, if any, and
\* removes the mapping; on an absent key (so also when called twice in a
\* row) it changes nothing and raises no error; no other key's session is
\* touched.
C7_ClearIsIdempotent ==
    [][\A k \in SocketIds :
          ClearStep(k) =>
              /\ k \notin DOMAIN sessions'
              /\ DOMAIN sessions' = DOMAIN sessions \ {k}
              /\ \A j \in DOMAIN sessions' : sessions'[j] = sessions[j]
              /\ k \in DOMAIN sessions =>
                    procs'[sessions[k].terminal].state # "running"
              /\ \A p \in Pids :
                    (k \notin DOMAIN sessions \/ p # sessions[k].terminal)
                        => procs'[p] = procs[p]
              /\ thrown' = thrown
              /\ k \notin DOMAIN sessions => UNCHANGED <<sessions, procs>>]_vars

C7_Witness ==
    \E k \in SocketIds :
        /\ phase[k] = "destroyed"
        /\ lastCall = [op |-> "clear", key |-> k, hit |-> FALSE]
        /\ \E j \in DOMAIN sessions : j # k /\ Running(sessions[j].terminal)

(***************************************************************************)
(* Claims about the file handlers and the write-through.                   *)
(***************************************************************************)

KeyOf(req) == DurableKey(sock[req.sock].replId, req.path)

\* Another update of the same path has reached the file.
OverwrittenBy(i) ==
    \E j \in DOMAIN reqs :
        /\ j # i
        /\ reqs[j].kind = "update" /\ reqs[j].path = reqs[i].path
        /\ reqs[j].fs \in {"open", "ok"}

\* C8: on one connection an updateContent followed immediately by a
\* fetchContent of the same path answers with the content just written, in
\* every interleaving of the two handlers, whether or not the put completed.
C8_FetchAfterUpdateReadsTheUpdate ==
    \A i \in DOMAIN reqs :
        (/\ i > 1
         /\ reqs[i].kind = "fetch" /\ reqs[i].outcome = "resolved"
         /\ reqs[i - 1].kind = "update" /\ reqs[i - 1].fs # "failed"
         /\ reqs[i - 1].sock = reqs[i].sock /\ reqs[i - 1].path = reqs[i].path)
        => reqs[i].reply = reqs[i - 1].content

\* C9: the put of an updateContent is issued only after the local write of
\* the same request succeeded; the object of a path never holds a content
\* that was not stored in the local file before; a request whose local write
\* failed issues no put.
C9_LocalWriteBeforePut ==
    /\ \A i \in DOMAIN reqs :
          /\ reqs[i].puts > 0 => reqs[i].fs = "ok"
          /\ reqs[i].put # "none" => reqs[i].content \in localHist[LocalPath(reqs[i].path)]
          /\ reqs[i].fs = "failed" => (reqs[i].puts = 0 /\ reqs[i].put = "none")
    /\ \A r \in ReplIds, f \in FilePaths :
          DurableKey(r, f) \in DOMAIN durable =>
              durable[DurableKey(r, f)] \in localHist[LocalPath(f)]

C9_Witness ==
    /\ \E i \in DOMAIN reqs :
          /\ reqs[i].put = "ok"
          /\ durable[KeyOf(reqs[i])] = reqs[i].content
    /\ \E j \in DOMAIN reqs : reqs[j].kind = "update" /\ reqs[j].fs = "failed"

\* C10: when the put of an updateContent fails, the failure is caught and
\* logged inside the request (it does not leave the handler), the local file
\* keeps the new content, the put is not retried, and the hosting process
\* goes on serving.
C10_PutFailureIsContained ==
    \A i \in DOMAIN reqs :
        reqs[i].put = "failed" =>
            /\ reqs[i].outcome # "rejected"
            /\ reqs[i].puts = 1
            /\ OverwrittenBy(i) \/ files[LocalPath(reqs[i].path)] = reqs[i].content
            /\ ~crashed

\* C11: no request handler (fetchContent, updateContent and the others of
\* initHandlers) lets a failure of the mirror or of the store leave the
\* request: no handler's promise is rejected with nothing catching it, and
\* the hosting process, with it every other connection and session, goes on.
C11_RequestFailuresAreConfined ==
    /\ ~crashed
    /\ \A i \in DOMAIN reqs :
          reqs[i].fs = "failed" \/ reqs[i].put = "failed" =>
              reqs[i].outcome # "rejected"

(***************************************************************************)
(* Claims about provisioning and POST /project.                            *)
(***************************************************************************)

\* The keys of the bucket under a prefix.
Under(prefix) == {k \in DOMAIN bucket : IsPrefix(prefix, k)}

\* The key under the destination prefix with the suffix that k has under
\* the source prefix.
Moved(k, from, to) == to \o SubSeq(k, Len(from) + 1, Len(k))

\* The request that made the latest copyS3Folder call.
CallPost == CHOOSE i \in DOMAIN posts :
                posts[i].calls > 0 /\ \A j \in DOMAIN posts : posts[j].calls > 0 => j <= i

Called1 == \E i \in DOMAIN posts : posts[i].calls > 0

\* C12: when provisioning returns successfully, the keys under the workspace
\* prefix are exactly the keys under the template prefix with the prefix
\* replaced and the suffix kept, over all pages of the listing, and each
\* copy has the content of its source.
C12_ProvisionCopiesEveryObject ==
    prov.state = "ok" =>
        /\ Under(prov.destinationPrefix) =
              {Moved(k, prov.sourcePrefix, prov.destinationPrefix) :
                  k \in Under(prov.sourcePrefix)}
        /\ \A k \in Under(prov.sourcePrefix) :
              bucket[Moved(k, prov.sourcePrefix, prov.destinationPrefix)] = bucket[k]

C12_Witness ==
    /\ prov.state = "ok"
    /\ prov.lists >= 3
    /\ s3.pageSize = 3
    /\ Cardinality(Under(prov.destinationPrefix)) >= 7

\* C13: provisioning the same workspace from the same unchanged template a
\* second time leaves the bucket, keys and contents, as the first time did.
C13_ProvisionIsIdempotent ==
    \A i, j \in DOMAIN posts :
        (/\ i < j
         /\ posts[i].outcome = "ok" /\ posts[j].outcome = "ok"
         /\ posts[i].body = posts[j].body)
        => /\ posts[i].after = posts[j].after
           /\ ~Busy => bucket = posts[j].after

C13_Witness ==
    /\ Len(posts) >= 2
    /\ posts[1].outcome = "ok" /\ posts[2].outcome = "ok"
    /\ Cardinality(Under(<<"code/">>)) >= 2

\* The listing of the template needs more pages than the ceiling allows:
\* more than maxDepth + 1 of them, or pages without end.
ExceedsCeiling(prefix) ==
    LET n == Cardinality(Under(prefix))
    IN  /\ n > 0
        /\ \/ s3.truncates = "always"
           \/ (n + s3.pageSize - 1) \div s3.pageSize > maxDepth + 1

\* C14: provisioning always terminates; when the template needs more pages
\* than the ceiling allows, also with a store that reports every page as
\* truncated, the call ends with a failure that is reported to the caller
\* (a 5xx answer), and never with a success over a part of the objects.
C14_ProvisionTerminates ==
    /\ Busy ~> ~Busy
    /\ [](prov.state = "ok" => ~ExceedsCeiling(prov.sourcePrefix))
    /\ [](\A i \in DOMAIN posts :
             (/\ posts[i].calls > 0
              /\ posts[i].outcome \notin {"listing", "copying"}
              /\ ExceedsCeiling(sourcePrefix(posts[i].body.language)))
             => posts[i].outcome = "failed" /\ posts[i].responses = <<500>>)

C14_Witness ==
    /\ prov.state = "failed" /\ prov.error = "depth"
    /\ prov.lists = maxDepth + 1
    /\ s3.truncates = "always"
    /\ posts[CallPost].responses = <<500>>

\* C15: a list or copy call that fails inside provisioning ends the whole
\* call with a failure, which the caller receives: the call never returns
\* normally after one of its store calls failed.
C15_StoreFailureAbortsProvision ==
    prov.storeFailed =>
        /\ prov.state = "failed"
        /\ prov.error \in {"list", "copy"}
        /\ posts[CallPost].outcome = "failed"
        /\ posts[CallPost].responses = <<500>>

C15_Witness ==
    /\ prov.storeFailed
    /\ prov.error = "copy"
    /\ prov.depth >= 1
    /\ posts[CallPost].responses = <<500>>

\* A field of the request body is missing.
Missing(body) ==
    body.replId \in {"", Undefined} \/ body.language \in {"", Undefined}

\* C16: POST /project answers 400 and never calls provisioning when replId
\* or language is missing; otherwise it calls provisioning exactly once and
\* answers 200 only if the call completed without failure, 500 if it
\* failed; a request gets exactly one response.
C16_ProjectResponses ==
    \A i \in DOMAIN posts :
        LET p == posts[i]
        IN  /\ Len(p.responses) <= 1
            /\ Missing(p.body) => p.calls = 0 /\ p.responses = <<400>>
            /\ ~Missing(p.body) =>
                  /\ p.calls = 1
                  /\ p.outcome \in {"listing", "copying"} <=> p.responses = <<>>
                  /\ p.outcome = "ok" <=> p.responses = <<200>>
                  /\ p.outcome = "failed" <=> p.responses = <<500>>

C16_Witness ==
    /\ Len(posts) = 2
    /\ posts[1].responses = <<400>>
    /\ posts[2].responses = <<200>>
    /\ posts[2].after # <<>>

\* C17: without a configured bucket name provisioning fails with the
\* configuration error before any list or copy request is made, and the
\* failure reaches the caller.
C17_NoBucketNoStoreCall ==
    env \in {"", Undefined} =>
        /\ prov.lists = 0 /\ prov.copies = 0 /\ strays = {}
        /\ Called1 =>
              /\ prov.state = "failed" /\ prov.error = "config"
              /\ \A i \in DOMAIN posts :
                    posts[i].calls > 0 => posts[i].responses = <<500>>

C17_Witness ==
    /\ env = Undefined
    /\ Called1
    /\ posts[CallPost].responses = <<500>>
    /\ Cardinality(Under(<<"base/">>)) >= 1

\* The pages the listing of a prefix spans with an honest store.
PagesOf(prefix) == (Cardinality(Under(prefix)) + s3.pageSize - 1) \div s3.pageSize

\* C40: with the default ceiling a call follows at most maxDepth = 10
\* continuation cursors.  With a store that pages honestly and does not
\* fail, a template of up to 11 pages is copied completely and the call
\* succeeds; a template of 12 or more pages makes the call fail with the
\* depth error after exactly the objects of the first 11 pages were copied.
C40_CeilingIsElevenPages ==
    /\ prov.lists <= maxDepth + 1
    /\ (/\ Called1
        /\ prov.state \in {"ok", "failed"}
        /\ env # Undefined
        /\ ~prov.storeFailed
        /\ s3.truncates = "honest")
       => LET src == Matching(prov.sourcePrefix)
              to(k) == Moved(k, prov.sourcePrefix, prov.destinationPrefix)
              first == (maxDepth + 1) * s3.pageSize
          IN  IF PagesOf(prov.sourcePrefix) <= maxDepth + 1
              THEN /\ prov.state = "ok"
                   /\ prov.copies = Len(src)
                   /\ \A i \in DOMAIN src : to(src[i]) \in DOMAIN bucket
              ELSE /\ prov.state = "failed" /\ prov.error = "depth"
                   /\ prov.lists = maxDepth + 1
                   /\ prov.copies = first
                   /\ \A i \in DOMAIN src : to(src[i]) \in DOMAIN bucket <=> i <= first
                   /\ posts[CallPost].responses = <<500>>

C40_Witness ==
    /\ prov.state = "failed" /\ prov.error = "depth"
    /\ s3.truncates = "honest" /\ s3.pageSize = 1
    /\ PagesOf(prov.sourcePrefix) = maxDepth + 2
    /\ Cardinality(Under(prov.destinationPrefix)) = maxDepth + 1

\* The objects of the template that the call listed before index i have
\* their copy under the destination prefix.
CopiedBefore(i) ==
    LET src == Matching(prov.sourcePrefix)
    IN  \A j \in 1..(i - 1) :
            Moved(src[j], prov.sourcePrefix, prov.destinationPrefix) \in DOMAIN bucket

\* Where in the listing of the template the page of the call starts.
PageStart == IF prov.token = 0 THEN 1 ELSE prov.token

\* C31: during a provisioning call at most maxConcurrency = 10 copies are
\* in flight.  The copies in flight belong to one chunk of at most 10
\* objects of the page, a chunk starts only when the copies of the chunks
\* before it are done, and a page is listed only when no copy is in flight
\* and the objects of the pages before it are copied.
C31_BoundedFanOut ==
    /\ Cardinality(prov.inflight) <= maxConcurrency
    /\ prov.state = "copying" =>
          /\ prov.inflight # {}
          /\ prov.inflight \subseteq
                {prov.page.Contents[j] :
                    j \in prov.chunk..Min2(prov.chunk + maxConcurrency - 1,
                                           Len(prov.page.Contents))}
          /\ CopiedBefore(PageStart + prov.chunk - 1)
    /\ prov.state = "listing" =>
          /\ prov.inflight = {}
          /\ CopiedBefore(PageStart)
    /\ prov.state # "copying" => prov.inflight = {}

C31_Witness ==
    /\ prov.state = "copying"
    /\ Len(prov.page.Contents) = maxConcurrency + 1
    /\ prov.chunk = maxConcurrency + 1
    /\ Cardinality(prov.inflight) = 1
    /\ prov.copies = maxConcurrency + 1

\* C32: provisioning fails fast.  The step in which a copy fails ends the
\* call with a failure that stems from the copy and that the caller answers
\* with 500, without issuing another copy or listing; afterwards the call
\* starts no chunk and no page; and no object is ever removed from the
\* bucket, so that what was copied before the failure remains.
C32_FailFastNoRollback ==
    [][/\ (~prov.storeFailed /\ prov.state = "copying" /\ prov'.storeFailed)
          => /\ prov'.state = "failed" /\ prov'.error = "copy"
             /\ prov'.inflight = {}
             /\ prov'.copies = prov.copies /\ prov'.lists = prov.lists
             /\ posts'[Len(posts')].responses = <<500>>
       /\ (prov.storeFailed /\ Len(posts) = MaxPosts) => prov' = prov /\ posts' = posts
       /\ \A k \in DOMAIN bucket : k \in DOMAIN bucket' /\ bucket'[k] = bucket[k]]_vars

C32_Witness ==
    /\ prov.storeFailed /\ prov.error = "copy"
    /\ prov.chunk = 1 /\ prov.depth = 0
    /\ prov.copies = maxConcurrency /\ prov.lists = 1
    /\ strays = {}
    /\ Cardinality(Under(prov.destinationPrefix)) = maxConcurrency - 1
    /\ posts[CallPost].responses = <<500>>

\* C34: provisioning template T into workspace W copies only the objects
\* under base/T/ and writes only keys under code/W/.  Every request names
\* the template node and the workspace w1: each key under code/ is under
\* code/w1/ and is the copy of an object under base/node/.
C34_OnlyOwnTemplateAndWorkspace ==
    \A k \in Under(<<"code/">>) :
        /\ IsPrefix(<<"code/", "w1", "/">>, k)
        /\ \E t \in Under(<<"base/", "node", "/">>) :
              k = Moved(t, <<"base/", "node">>, <<"code/", "w1">>)

\* C28: provisioning from a template prefix that matches no object is not
\* an error.  With the bucket name configured and the store answering the
\* listing, the call returns successfully after that one listing without
\* issuing a copy, the bucket is as it was, and POST /project answers 200.
C28_EmptyTemplateProvisions ==
    (/\ Called1
     /\ Under(prov.sourcePrefix) = {}
     /\ env # Undefined
     /\ ~prov.storeFailed
     /\ prov.state # "listing")
    => /\ prov.state = "ok"
       /\ prov.lists = 1 /\ prov.copies = 0 /\ strays = {}
       /\ bucket = Template("node", 0)
       /\ posts[CallPost].outcome = "ok"
       /\ posts[CallPost].responses = <<200>>

C28_Witness ==
    /\ Called1
    /\ Under(prov.sourcePrefix) = {}
    /\ s3.truncates = "always"
    /\ prov.state = "ok" /\ prov.lists = 1 /\ prov.copies = 0
    /\ posts[CallPost].responses = <<200>>

(***************************************************************************)
(* Claims about the directory listings and the client's entry list.        *)
(***************************************************************************)

Paths(list) == {list[i].path : i \in DOMAIN list}

\* C18: whatever fetch-directory responses were merged, the client's list
\* has no two entries with the same path, and its paths are exactly those of
\* the root listing and of every merged response: for the tree {a/,
\* a/x.txt, b.txt}, unchanged, with a/ fetched once or repeatedly, they are
\* exactly /a, /a/x.txt and /b.txt.
C18_MergedListHasEachPathOnce ==
    /\ \A i, j \in DOMAIN fileStructure :
          fileStructure[i].path = fileStructure[j].path => i = j
    /\ Paths(fileStructure) = DOMAIN latest
    /\ (/\ DOMAIN disk = {"", "/a"} /\ edits = MaxEdits
        /\ \E i \in DOMAIN fetches : fetches[i].state = "merged")
       => Paths(fileStructure) = {"/a", "/a/x.txt", "/b.txt"}

C18_Witness ==
    /\ DOMAIN disk = {"", "/a"} /\ edits = MaxEdits
    /\ Len(fetches) >= 2
    /\ \A i \in DOMAIN fetches : fetches[i].dir = "/a" /\ fetches[i].state = "merged"
    /\ Len(fileStructure) = 3

\* C19: when a merged response has an entry whose path is in the list
\* already, the list keeps the entry of the response: the entry stored for a
\* path has the type and the name of the latest response with that path.
C19_LastWritePerPathWins ==
    \A i \in DOMAIN fileStructure :
        fileStructure[i] = latest[fileStructure[i].path]

\* C20: listing a directory that exists and has no entries gives the empty
\* sequence, and the fetchDir handler hands the empty list to the client's
\* callback: the request is answered, not failed.
C20_EmptyDirectoryListsEmpty ==
    \A i \in DOMAIN fetches :
        fetches[i].empty =>
            /\ fetches[i].state \in {"answered", "merged"}
            /\ fetches[i].data = <<>>

C20_Witness ==
    \E i \in DOMAIN fetches :
        /\ fetches[i].empty
        /\ fetches[i].dir = "/e"
        /\ fetches[i].state = "merged"
        /\ fetches[i].data = <<>>

\* The listing is, entry for entry, what the directory d holds: one entry
\* per dirent, of its kind and name, with the path d/name.
Reflects(listing, d) ==
    /\ d \in DOMAIN disk
    /\ Len(listing) = Len(disk[d])
    /\ \A k \in DOMAIN listing :
          /\ listing[k].name = disk[d][k].name
          /\ listing[k].type = "dir" <=> disk[d][k].isDirectory
          /\ listing[k].type = "file" <=> ~disk[d][k].isDirectory
          /\ listing[k].path = (d \o "/") \o disk[d][k].name

\* C21: a directory listing, the root listing of 'loaded' as well as the
\* answer of fetchDir, has exactly one entry per direct child that the
\* directory holds at the time of the call, with the kind the filesystem
\* reports and the path directory/name: nothing absent, nothing below.
C21_ListingReflectsDirectory ==
    [][/\ (~loaded /\ loaded') => Reflects(fileStructure', "")
       /\ \A i \in DOMAIN fetches :
             (fetches[i].state = "sent" /\ fetches'[i].state = "answered")
             => Reflects(fetches'[i].data, fetches[i].dir)]_vars

C21_Witness ==
    /\ loaded
    /\ \E i \in DOMAIN fetches :
          /\ fetches[i].dir = "/a"
          /\ fetches[i].state = "answered"
          /\ Len(fetches[i].data) = 1
          /\ fetches[i].data[1].type = "dir"

\* The names of the model in the order of localeCompare.
NameOrder == <<"a", "b.txt", "e", "x.txt">>

Rank(name) == CHOOSE r \in DOMAIN NameOrder : NameOrder[r] = name

SortedByName(listing) ==
    \A i, j \in DOMAIN listing : i < j => Rank(listing[i].name) <= Rank(listing[j].name)

\* C22: every listing handed to the client, the root listing of 'loaded'
\* and the answer of fetchDir, is sorted by entry name, in whatever order
\* the filesystem enumerates the directory.
C22_ListingSortedByName ==
    /\ (loaded /\ \A i \in DOMAIN fetches : fetches[i].state # "merged")
       => SortedByName(fileStructure)
    /\ \A i \in DOMAIN fetches :
          fetches[i].state \in {"answered", "merged"} => SortedByName(fetches[i].data)

\* C27: a fetchDir (or fetchContent) request for a path that is not in the
\* mirror is answered through its callback with an empty or failed result:
\* the request gets a response, only that request is given up, and the
\* connection's later requests are served.
C27_NotFoundIsAnswered ==
    \A i \in DOMAIN fetches :
        fetches[i].dir \notin DOMAIN disk =>
            /\ fetches[i].state # "rejected"
            /\ ~crashed

(***************************************************************************)
(* Claims about the connections and the terminal traffic.                  *)
(***************************************************************************)

\* C23: a connection from whose handshake no workspace id can be derived is
\* failed: it is disconnected, is sent no root listing, gets no handlers and
\* no session; a connection with a workspace id is sent the root listing
\* exactly once and is then served.
C23_ConnectNeedsWorkspaceId ==
    \A s \in SocketIds :
        sock[s].state # "idle" =>
            IF Falsy(sock[s].replId)
            THEN /\ sock[s].state = "closed"
                 /\ sock[s].loaded = 0
                 /\ s \notin DOMAIN sessions
            ELSE /\ sock[s].state \in {"open", "closed"}
                 /\ sock[s].loaded = 1

\* The chunks of process pid among the chunks emitted for key k, in order.
EmittedOf(k, pid) == SelectSeq(emitted[k], LAMBDA c : c[1] = pid)

\* C24: the chunks a shell produced are emitted as terminal events of the
\* connection that created it in the order the shell produced them: none
\* is reordered, repeated or left out.
C24_OutputInOrder ==
    \A pid \in Pids :
        EmittedOf(procs[pid].cb, pid) = [n \in 1..procs[pid].out |-> <<pid, n>>]

C24_Witness ==
    \E p, q \in Pids :
        /\ p # q /\ procs[p].cb = procs[q].cb
        /\ procs[p].out >= 2 /\ procs[q].out >= 1
        /\ emitted[procs[p].cb][2][1] = q

\* C25: the terminalData events of a connection are written to its shell in
\* the order the client submitted them: what a shell was written is a run
\* of consecutive submissions of its connection, earlier ones first.
C25_InputInOrder ==
    \A pid \in Pids :
        LET in == procs[pid].input
        IN  /\ \A i \in DOMAIN in : in[i][1] = procs[pid].cb
            /\ \A i \in 1..(Len(in) - 1) : in[i + 1][2] = in[i][2] + 1

C25_Witness ==
    \E pid \in Pids :
        /\ Len(procs[pid].input) >= 3
        /\ sent[procs[pid].cb] >= 3

\* C26: when the shell of a connection fails to spawn or dies, the client
\* of the connection is sent a terminal-closed event at that step, and the
\* connection stays usable: the hosting process goes on serving it.
C26_ProcessFaultIsSignalled ==
    [][/\ \A pid \in Pids :
             (procs[pid].state # "exited" /\ procs'[pid].state = "exited")
             => emitted'[procs[pid].cb] # emitted[procs[pid].cb]
       /\ \A s \in SocketIds :
             [op |-> "createPty", key |-> s] \in thrown' \ thrown
             => emitted'[s] # emitted[s] /\ ~crashed']_vars

(***************************************************************************)
(* Claims about the materialised workspace.                                *)
(***************************************************************************)

\* C29: provision, materialise, list, update is a round trip on keys.  An
\* updateContent event that carries the path under which the gateway listed
\* a materialised file writes the local file that was materialised and puts
\* under the key that file was materialised from; that key is the workspace
\* prefix followed by the file's path relative to /workspace.
C29_KeyRoundTrip ==
    \A i \in DOMAIN updates :
        LET u == updates[i]
            prefix == destinationPrefix(sock[Client].replId)
        IN  /\ u.file \in DOMAIN mirror
            /\ mirror[u.file].key = u.key
            /\ IsPrefix(prefix \o <<"/">>, u.key)
            /\ u.file = <<"workspace">> \o
                           Components(SubSeq(u.key, Len(prefix) + 1, Len(u.key)))

C29_Witness ==
    /\ mat.key = <<"code/", "w1">>
    /\ \E i \in DOMAIN updates :
          /\ updates[i].path = <<"/", "a", "/", "x">>
          /\ updates[i].key = <<"code/", "w1", "/", "a", "/", "x">>
          /\ mirror[updates[i].file].body = Edited
          /\ bucket[updates[i].key] = Edited
    /\ \E i \in DOMAIN updates : updates[i].path = <<"/", "f01">>

\* C30: when fetchS3Folder has completed, every object under the prefix has
\* its local file, however many pages the listing of the prefix spans; a
\* call that saw only a part of the listing does not complete normally.
C30_MaterializeFollowsPagination ==
    mat.state = "done" =>
        \A k \in Under(mat.key) : \E f \in DOMAIN mirror : mirror[f].key = k

(***************************************************************************)
(* Claims about connections that share the session manager.                *)
(***************************************************************************)

\* The entry of key k, or that there is none.
EntryOf(m, k) == IF k \in DOMAIN m THEN <<m[k]>> ELSE <<>>

\* C33: the entry of a key changes only in a createPty or clear call made
\* for that key, and a shell is killed only by a clear call for the key
\* that created it: in every interleaving of create, write, destroy and
\* exit events of two keys no mapping is lost or overwritten by an event of
\* the other key.  The map holds session keys only.
C33_SessionMapUpdatesAreAtomic ==
    [][/\ \A k \in SocketIds :
             EntryOf(sessions', k) # EntryOf(sessions, k)
             => /\ calls' = calls + 1
                /\ lastCall'.key = k
                /\ lastCall'.op \in {"createPty", "clear"}
       /\ \A pid \in Pids :
             (procs[pid].state = "running" /\ procs'[pid].state = "killed")
             => /\ lastCall'.key = procs[pid].cb
                /\ lastCall'.op = "clear"
       /\ DOMAIN sessions' \subseteq SocketIds]_vars

C33_Witness ==
    /\ phase["s1"] = "destroyed"
    /\ "s1" \notin DOMAIN sessions
    /\ "s2" \in DOMAIN sessions
    /\ procs[sessions["s2"].terminal].state = "exited"
    /\ \E pid \in Pids : procs[pid].cb = "s1" /\ procs[pid].state = "killed"

\* C38: the sessions of different connections are isolated.  What a shell
\* was written is input submitted on the connection whose requestTerminal
\* created it, a chunk is emitted on the socket of the connection that
\* created the shell it comes from, and a shell runs for the workspace of
\* that connection.
C38_SessionsAreIsolated ==
    /\ \A pid \in Pids :
          /\ procs[pid].cb \in SocketIds
          /\ procs[pid].replId = sock[procs[pid].cb].replId
          /\ \A i \in DOMAIN procs[pid].input :
                /\ procs[pid].input[i][1] = procs[pid].cb
                /\ procs[pid].input[i][2] <= sent[procs[pid].cb]
    /\ \A k \in SocketIds :
          \A i \in DOMAIN emitted[k] :
             /\ emitted[k][i][1] \in Pids
             /\ procs[emitted[k][i][1]].cb = k

C38_Witness ==
    /\ "s1" \in DOMAIN sessions /\ "s2" \in DOMAIN sessions
    /\ procs[sessions["s1"].terminal].input # <<>>
    /\ procs[sessions["s2"].terminal].input # <<>>
    /\ emitted["s2"] # <<>>

(***************************************************************************)
(* Claims about the convergence of the write-through.                      *)
(***************************************************************************)

\* The updateContent requests, by their index in the order of submission.
Updates == {i \in DOMAIN reqs : reqs[i].kind = "update"}

\* C37: once every updateContent request has completed, none with a
\* failure, the object of the path and the local file both hold the content
\* of the update that was submitted last.
C37_WriteThroughConverges ==
    (/\ Updates # {}
     /\ \A i \in Updates : reqs[i].outcome = "resolved")
    => LET last == CHOOSE i \in Updates : \A j \in Updates : j <= i
       IN  /\ files[LocalPath(reqs[last].path)] = reqs[last].content
           /\ durable[KeyOf(reqs[last])] = reqs[last].content

(***************************************************************************)
(* Claims about the order of 'loaded' and the request handlers.            *)
(***************************************************************************)

\* The shells connection s created, and what they were written.
ShellsOf(ps, s) == {<<pid, ps[pid].input>> : pid \in {p \in DOMAIN ps : ps[p].cb = s}}

\* C39: the listeners of a connection are registered in the step that
\* emits 'loaded', after the root listing was awaited, and never when the
\* listing failed; as long as 'loaded' was not emitted on a connection no
\* event of it is handled: no shell is created or written for it and
\* nothing is emitted on it, whatever the client submits.
C39_LoadedComesFirst ==
    [][\A s \in SocketIds :
          /\ (sock'[s].state = "open" /\ sock[s].state # "open")
             => /\ sock[s].state = "listing"
                /\ sock'[s].loaded = sock[s].loaded + 1
          /\ sock'[s].state = "open" => sock'[s].loaded >= 1
          /\ sock[s].loaded = 0
             => /\ emitted'[s] = emitted[s]
                /\ EntryOf(sessions', s) = EntryOf(sessions, s)
                /\ ShellsOf(procs', s) = ShellsOf(procs, s)]_vars

C39_Witness ==
    /\ sock["s1"].state = "nohandlers" /\ sent["s1"] = MaxUnheard
    /\ sock["s2"].state = "open" /\ sock["s2"].loaded = 1
    /\ sent["s2"] > MaxUnheard
    /\ "s2" \in DOMAIN sessions
    /\ procs[sessions["s2"].terminal].input = <<<<"s2", sent["s2"]>>>>
    /\ emitted["s2"] # <<>>
    /\ emitted["s1"] = <<>> /\ ShellsOf(procs, "s1") = {}

(***************************************************************************)
(* Claims about the client's file tree.                                    *)
(***************************************************************************)

\* The path of an entry without its last segment, which is the entry's name.
ParentPath(e) ==
    CHOOSE q \in {""} \cup Paths(fileStructure) : e.path = (q \o "/") \o e.name

\* The directories of the tree: the root ("0") and the cached directories.
TreeDirs(t) == {"0"} \cup {k \in DOMAIN t.cache.get : t.cache.get[k].type = "dir"}

\* How often an id was pushed to a directory of the tree.
Pushes(t, d, id) ==
    LET all == pushed(t.cache, d, "dir") \o pushed(t.cache, d, "file")
    IN  Cardinality({i \in DOMAIN all : all[i] = id})

DepthOf(t, id) == IF id = "0" THEN 0 ELSE CHOOSE n \in 0..9 : <<id, n>> \in t.depth

\* C35: for every entry list the client accumulates, buildFileTree returns
\* without a failed parent lookup and places every entry once: under the
\* directory whose path is the entry's path without its last segment, the
\* root for a top-level entry, with the depth of that directory plus one;
\* the tree has the entries of the list and no other.
C35_TreePlacesEveryEntryOnce ==
    LET t == rootDir
    IN  /\ ~t.threw
        /\ DOMAIN t.cache.get = Paths(fileStructure)
        /\ {p[1] : p \in t.depth} = Paths(fileStructure)
        /\ \A i \in DOMAIN fileStructure :
              LET e == fileStructure[i]
                  up == IF ParentPath(e) = "" THEN "0" ELSE ParentPath(e)
              IN  /\ up \in TreeDirs(t)
                  /\ t.cache.get[e.path].type = e.type
                  /\ \A d \in TreeDirs(t) :
                        Pushes(t, d, e.path) = IF d = up THEN 1 ELSE 0
                  /\ e.type = "file" =>
                        Pushes(t, e.path, e.path) = 0 /\ e.path \notin TreeDirs(t)
                  /\ Cardinality({p \in t.depth : p[1] = e.path}) = 1
                  /\ DepthOf(t, e.path) = DepthOf(t, up) + 1

C35_Witness ==
    /\ disk = Deep
    /\ Len(fileStructure) = 5
    /\ <<"/a/c/x.txt", 3>> \in rootDir.depth
    /\ pushed(rootDir.cache, "/a", "dir") = <<"/a/c">>
    /\ pushed(rootDir.cache, "/a", "file") = <<"/a/x.txt">>

\* The files of the tree in the order findFile visits them: the files of a
\* directory, then its directories one after the other, each in depth.
RECURSIVE Visited(_, _)
RECURSIVE VisitedIn(_, _, _)
Visited(cache, id) ==
    pushed(cache, id, "file") \o VisitedIn(cache, pushed(cache, id, "dir"), 1)
VisitedIn(cache, dirs, i) ==
    IF i > Len(dirs) THEN <<>>
    ELSE Visited(cache, dirs[i]) \o VisitedIn(cache, dirs, i + 1)

\* C36: findFileByName returns a file of the given name whenever the tree
\* has one and undefined otherwise; of several files with the name it
\* returns the one visited last, the search not stopping at the first.
C36_FindReturnsLastMatch ==
    \A filename \in {"a", "b.txt", "x.txt", "none"} :
        LET cache == rootDir.cache
            hits == SelectSeq(Visited(cache, "0"),
                              LAMBDA id : cache.get[id].name = filename)
            found == findFileByName(rootDir, filename)
        IN  IF hits = <<>> THEN found = Undefined
            ELSE /\ found = hits[Len(hits)]
                 /\ cache.get[found].name = filename
                 /\ cache.get[found].type = "file"

C36_Witness ==
    /\ disk = Deep
    /\ Len(fileStructure) = 5
    /\ Visited(rootDir.cache, "0") = <<"/x.txt", "/a/x.txt", "/a/c/x.txt">>
    /\ findFileByName(rootDir, "x.txt") = "/a/c/x.txt"
    /\ findFileByName(rootDir, "a") = Undefined

====
